---- MODULE Spec2Model ----
(***************************************************************************)
(* Model of sysgen (sysgen/sysgen.go): the compiler that projects the      *)
(* architecture-independent syscall Description through each               *)
(* architecture's constant table and emits resources, struct instances     *)
(* and call descriptors.                                                   *)
(*                                                                         *)
(* Tokens are strings, read character by character as the code does.      *)
(* uint64 / int64 values are kept at their width: a value is a sequence of *)
(* 4 limbs of 16 bits, least significant first.                            *)
(***************************************************************************)
EXTENDS Integers, Sequences, FiniteSets, TLC

\* ------------------------------------------------------------------------
\* 64-bit machine integers as limbs
\* ------------------------------------------------------------------------

\* One limb holds LimbBase values (16 bits); 4 limbs make a 64-bit word.
LimbBase == 2 ^ 16

Pow2(n) == 2 ^ n

RECURSIVE Zeros(_)
Zeros(n) == IF n = 0 THEN <<>> ELSE <<0>> \o Zeros(n - 1)

\* Zero-extension of a limb sequence to n limbs.
Ext(a, n) == a \o Zeros(n - Len(a))

\* uint64(n) for a small natural n.
U64(n) == <<n % LimbBase, n \div LimbBase, 0, 0>>

U64Zero == <<0, 0, 0, 0>>

\* a + b + c on limb sequences of equal length, wrapping at that length.
RECURSIVE LAdd(_, _, _)
LAdd(a, b, c) ==
    IF a = <<>> THEN <<>>
    ELSE LET s == Head(a) + Head(b) + c
         IN  <<s % LimbBase>> \o LAdd(Tail(a), Tail(b), s \div LimbBase)

\* a * m + c for a small multiplier m, wrapping at the length of a.
RECURSIVE LMulSmall(_, _, _)
LMulSmall(a, m, c) ==
    IF a = <<>> THEN <<>>
    ELSE LET s == Head(a) * m + c
         IN  <<s % LimbBase>> \o LMulSmall(Tail(a), m, s \div LimbBase)

\* unsigned a < b, limb sequences of equal length.
RECURSIVE LLt(_, _)
LLt(a, b) ==
    IF a = <<>> THEN FALSE
    ELSE LET n == Len(a)
         IN  IF a[n] # b[n] THEN a[n] < b[n]
             ELSE LLt(SubSeq(a, 1, n - 1), SubSeq(b, 1, n - 1))

LLe(a, b) == ~LLt(b, a)

\* bitwise complement
LNot(a) == [i \in 1..Len(a) |-> LimbBase - 1 - a[i]]

\* two's complement negation, wrapping
LNeg(a) == LAdd(LNot(a), Zeros(Len(a)), 1)

\* the sign bit of an int64
I64Neg(a) == a[4] >= LimbBase \div 2

\* signed comparison of int64 values
I64Lt(a, b) == IF I64Neg(a) # I64Neg(b) THEN I64Neg(a) ELSE LLt(a, b)

I64Ge(a, b) == ~I64Lt(a, b)

\* Go's 1 << n on a 64-bit integer: the bit is shifted out when n >= 64.
Shl1(n) ==
    IF n >= 64 THEN U64Zero
    ELSE [i \in 1..4 |-> IF i = (n \div 16) + 1 THEN Pow2(n % 16) ELSE 0]

\* a \div 10 and a % 10 by long division from the top limb
RECURSIVE LDivMod10(_, _)
DivStep(cur, rest) == [q |-> Append(rest.q, cur \div 10), r |-> rest.r]

LDivMod10(a, r) ==
    IF a = <<>> THEN [q |-> <<>>, r |-> r]
    ELSE DivStep(r * LimbBase + a[Len(a)],
                 LDivMod10(SubSeq(a, 1, Len(a) - 1), (r * LimbBase + a[Len(a)]) % 10))

Digits == <<"0", "1", "2", "3", "4", "5", "6", "7", "8", "9">>

DigitChars == {Digits[i] : i \in 1..10}

DigitVal(c) == CHOOSE d \in 0..9 : Digits[d + 1] = c

\* fmt.Sprint of a uint64: its decimal digits
RECURSIVE SprintU(_)
SprintStep(dm, zero) ==
    IF dm.q = zero THEN Digits[dm.r + 1] ELSE SprintU(dm.q) \o Digits[dm.r + 1]

SprintU(a) == SprintStep(LDivMod10(a, 0), Zeros(Len(a)))

\* fmt.Sprint of an int64 / int
SprintI(a) == IF I64Neg(a) THEN "-" \o SprintU(LNeg(a)) ELSE SprintU(a)

HasPrefix(s, p) == Len(s) >= Len(p) /\ SubSeq(s, 1, Len(p)) = p

HasSuffix(s, p) == Len(s) >= Len(p) /\ SubSeq(s, Len(s) - Len(p) + 1, Len(s)) = p

HexLower == "0123456789abcdef"

HexUpper == "0123456789ABCDEF"

\* the value of a digit character, 99 when it is none
HexVal(c) ==
    IF \E i \in 1..16 : SubSeq(HexLower, i, i) = c \/ SubSeq(HexUpper, i, i) = c
        THEN (CHOOSE i \in 1..16 : SubSeq(HexLower, i, i) = c \/ SubSeq(HexUpper, i, i) = c) - 1
    ELSE 99

\* the digits of s in the given base accumulated in 5 limbs; a non-zero top
\* limb is an overflow of 64 bits
RECURSIVE ParseDigits(_, _, _)
DigitsStep(s, base, acc, n) ==
    IF n[5] # 0 THEN [ok |-> FALSE, val |-> acc] ELSE ParseDigits(Tail(s), base, n)

ParseDigits(s, base, acc) ==
    IF s = "" THEN [ok |-> TRUE, val |-> acc]
    ELSE IF HexVal(Head(s)) >= base THEN [ok |-> FALSE, val |-> acc]
    ELSE DigitsStep(s, base, acc, LMulSmall(acc, base, HexVal(Head(s))))

UintOf(p) == IF p.ok THEN [ok |-> TRUE, val |-> SubSeq(p.val, 1, 4)]
             ELSE [ok |-> FALSE, val |-> U64Zero]

ParseUintBase(s, base) ==
    IF s = "" THEN [ok |-> FALSE, val |-> U64Zero]
    ELSE UintOf(ParseDigits(s, base, Zeros(5)))

\* strconv.ParseUint(s, 10, 64)
ParseUint(s) == ParseUintBase(s, 10)

\* strconv.ParseUint(s, 0, 64): "0x" is hexadecimal, a leading "0" octal,
\* anything else decimal
ParseUint0(s) ==
    IF HasPrefix(s, "0x") \/ HasPrefix(s, "0X") THEN ParseUintBase(SubSeq(s, 3, Len(s)), 16)
    ELSE IF HasPrefix(s, "0") /\ Len(s) > 1 THEN ParseUintBase(Tail(s), 8)
    ELSE ParseUintBase(s, 10)

\* the largest magnitude of a negative / non-negative int64
I64Limit(neg) ==
    IF neg THEN <<0, 0, 0, LimbBase \div 2>>
    ELSE <<LimbBase - 1, LimbBase - 1, LimbBase - 1, LimbBase \div 2 - 1>>

\* the int64 of a parsed magnitude p and a sign
SignedOf(neg, p) ==
    IF ~p.ok \/ LLt(I64Limit(neg), p.val) THEN [ok |-> FALSE, val |-> U64Zero]
    ELSE [ok |-> TRUE, val |-> IF neg THEN LNeg(p.val) ELSE p.val]

\* strconv.ParseInt(s, 10, 64): an optional sign, then digits; the magnitude
\* must fit an int64
ParseInt(s) ==
    IF s # "" /\ Head(s) \in {"-", "+"} THEN SignedOf(Head(s) = "-", ParseUint(Tail(s)))
    ELSE SignedOf(FALSE, ParseUint(s))

\* small decimal numbers (type-name suffixes): strconv.ParseInt on "8".."64"
RECURSIVE DecToNat(_, _)
DecToNat(s, acc) ==
    IF s = "" THEN acc ELSE DecToNat(Tail(s), acc * 10 + DigitVal(Head(s)))

\* ------------------------------------------------------------------------
\* Tokens
\* ------------------------------------------------------------------------

LowerChars == {"a", "b", "c", "d", "e", "f", "g", "h", "i", "j", "k", "l", "m",
               "n", "o", "p", "q", "r", "s", "t", "u", "v", "w", "x", "y", "z"}

UpperChars == {"A", "B", "C", "D", "E", "F", "G", "H", "I", "J", "K", "L", "M",
               "N", "O", "P", "Q", "R", "S", "T", "U", "V", "W", "X", "Y", "Z"}

\* isIdentifier: every character is '_' or a letter, or a digit that is not
\* the first character (the empty string passes)
RECURSIVE isIdentifierFrom(_, _)
isIdentifierFrom(s, i) ==
    IF s = "" THEN TRUE
    ELSE LET c == Head(s)
         IN  IF c = "_" \/ c \in LowerChars \/ c \in UpperChars
                \/ (i > 0 /\ c \in DigitChars)
                 THEN isIdentifierFrom(Tail(s), i + 1)
             ELSE FALSE

isIdentifier(s) == isIdentifierFrom(s, 0)

\* ------------------------------------------------------------------------
\* Program constants
\* ------------------------------------------------------------------------

ptrSize == 8

maxPids == 32

\* the byte 0x00 of a string value (no token of the schema contains it)
NUL == "@"

IntTypeNames == {"int8", "int16", "int32", "int64", "intptr"}

Directions == {"in", "out", "inout"}

\* ------------------------------------------------------------------------
\* Helpers of the Argument Type Compiler
\* ------------------------------------------------------------------------

\* fmtDir: the emitted direction constant; any other token is fatal
fmtDir(s) ==
    CASE s = "in" -> "DirIn"
      [] s = "out" -> "DirOut"
      [] s = "inout" -> "DirInOut"
      [] OTHER -> "bad direction"

\* decodeIntType: a "be" suffix is big-endian, the rest names the width
decodeIntType(typ) ==
    LET bigEndian == HasSuffix(typ, "be")
        t == IF bigEndian THEN SubSeq(typ, 1, Len(typ) - 2) ELSE typ
    IN  IF t \notin IntTypeNames
            THEN [ok |-> FALSE, size |-> 0, bigEndian |-> bigEndian]
        ELSE LET sz == IF t # "intptr" THEN DecToNat(SubSeq(t, 4, Len(t)), 0)
                       ELSE ptrSize * 8
             IN  [ok |-> TRUE, size |-> sz \div 8, bigEndian |-> bigEndian]

\* decodeByteSizeType: "bytesize" is 1, "bytesizeN" is N
decodeByteSizeType(typ) ==
    IF typ # "bytesize" THEN DecToNat(SubSeq(typ, 9, Len(typ)), 0) ELSE 1

\* strings.Split(s, ":")
RECURSIVE SplitColon(_, _)
SplitColon(s, cur) ==
    IF s = "" THEN <<cur>>
    ELSE IF Head(s) = ":" THEN <<cur>> \o SplitColon(Tail(s), "")
    ELSE SplitColon(Tail(s), cur \o Head(s))

lookupConst(name, consts) ==
    IF name \in DOMAIN consts THEN SprintU(consts[name]) ELSE name

\* parseRange: one value (both bounds) or lo:hi, each looked up in the table
parseRange(buffer, consts) ==
    LET parts == SplitColon(buffer, "")
    IN  CASE Len(parts) = 1 ->
               [ok |-> TRUE, begin |-> lookupConst(buffer, consts),
                end |-> lookupConst(buffer, consts)]
          [] Len(parts) = 2 ->
               [ok |-> TRUE, begin |-> lookupConst(parts[1], consts),
                end |-> lookupConst(parts[2], consts)]
          [] OTHER -> [ok |-> FALSE, begin |-> "", end |-> ""]

\* skipSyscall: the reason is recorded only when one is already recorded
skipSyscall(cur, why) == IF cur # "" THEN why ELSE cur

\* The index of the first "opt" in a, 0 when there is none.
RECURSIVE OptIndexFrom(_, _)
OptIndexFrom(a, i) ==
    IF i > Len(a) THEN 0
    ELSE IF a[i] = "opt" THEN i
    ELSE OptIndexFrom(a, i + 1)

OptIndex(a) == OptIndexFrom(a, 1)

\* The storage behind the parameter slice after the removal of "opt":
\* copy(a[i:], a[i+1:]) shifts the tail down by one and leaves the last
\* element in place; the storage is the schema's own token array.
OptStorage(a) ==
    LET i == OptIndex(a)
        n == Len(a)
    IN  IF i = 0 THEN a
        ELSE SubSeq(a, 1, i - 1) \o SubSeq(a, i + 1, n) \o <<a[n]>>

\* The parameter slice the constructs see: a[:len(a)-1] of that storage.
OptParams(a) ==
    IF OptIndex(a) = 0 THEN a ELSE SubSeq(OptStorage(a), 1, Len(a) - 1)

\* TypeCommon of an emitted node (common)
Common(name, dir, opt) == [TypeName |-> name, ArgDir |-> fmtDir(dir), IsOptional |-> opt]

NoNode == [k |-> "none"]

\* the outcome of one run of generateArg: the fatal error ("" when none),
\* the emitted node, the storage behind a, the Unnamed table (whose token
\* arrays are parameter storage too) and the skip reason of the current call
Result(err, node, store, unnamed, skip) ==
    [err |-> err, node |-> node, a |-> store, unnamed |-> unnamed, skip |-> skip]

\* an emitted node whose header is built from dir; a bad direction is fatal
Emit(dir, node, store, unnamed, skip) ==
    IF fmtDir(dir) = "bad direction"
        THEN Result("bad direction", NoNode, store, unnamed, skip)
    ELSE Result("", node, store, unnamed, skip)

\* the fixed total length of a string construct: a constant, else a number
stringSize(tok, consts) ==
    IF tok \in DOMAIN consts THEN [ok |-> TRUE, val |-> consts[tok]]
    ELSE ParseUint(tok)

\* for uint64(len(s)) < size { s += "\x00" }
RECURSIVE padTo(_, _)
padTo(s, size) == IF LLt(U64(Len(s)), size) THEN padTo(s \o NUL, size) ELSE s

\* ------------------------------------------------------------------------
\* generateArg: the Argument Type Compiler
\* ------------------------------------------------------------------------

ErrArity == "wrong number of arguments"

ErrCantBeArg == "can't be syscall argument/return"

\* The size and endianness of an integer-family construct in the field form,
\* decoded from its size parameter.
intField(d) ==
    IF ~d.ok THEN [err |-> "unknown type", size |-> 0, bigEndian |-> FALSE]
    ELSE [err |-> "", size |-> d.size, bigEndian |-> d.bigEndian]

\* The size and endianness of an integer-family construct: decoded from the
\* parameter a[sizeIdx] in the field form (wantField parameters), pointer
\* width and native endianness in the argument form (wantArg parameters).
intForm(a, isField, wantField, wantArg, sizeIdx) ==
    IF isField
        THEN IF Len(a) # wantField
                 THEN [err |-> ErrArity, size |-> 0, bigEndian |-> FALSE]
             ELSE intField(decodeIntType(a[sizeIdx]))
    ELSE IF Len(a) # wantArg
             THEN [err |-> ErrArity, size |-> 0, bigEndian |-> FALSE]
         ELSE [err |-> "", size |-> ptrSize, bigEndian |-> FALSE]

\* case "string": every value is checked against the fixed length and padded
\* to it
RECURSIVE padVals(_, _)
padRest(head, size, rest) ==
    IF rest.err # "" THEN rest
    ELSE [err |-> "", vals |-> <<padTo(head, size)>> \o rest.vals]

padVals(vals, size) ==
    IF vals = <<>> THEN [err |-> "", vals |-> <<>>]
    ELSE IF LLt(size, U64(Len(Head(vals))))
        THEN [err |-> "string value exceeds buffer length", vals |-> <<>>]
    ELSE padRest(Head(vals), size, padVals(Tail(vals), size))

\* values left without the terminating zero byte (the variant C7 has to tell
\* from the code)
unterminated(raw) == raw

\* s + "\x00" for every value
terminated(raw) == [i \in 1..Len(raw) |-> raw[i] \o NUL]

\* case "string": the enumerated values, each NUL-terminated: the quoted
\* literal or the values of the named string flags
stringRaw(a, D) ==
    IF Len(a) = 0 THEN [err |-> "", vals |-> <<>>, subkind |-> ""]
    ELSE IF a[1] = "" THEN [err |-> "panic: index out of range", vals |-> <<>>, subkind |-> ""]
    ELSE IF Head(a[1]) = "\""
        THEN IF Len(a[1]) < 2
                 THEN [err |-> "panic: slice bounds out of range", vals |-> <<>>, subkind |-> ""]
             ELSE [err |-> "", vals |-> terminated(<<SubSeq(a[1], 2, Len(a[1]) - 1)>>),
                   subkind |-> ""]
    ELSE IF a[1] \notin DOMAIN D.StrFlags
        THEN [err |-> "unknown string flags", vals |-> <<>>, subkind |-> ""]
    ELSE [err |-> "", vals |-> terminated(D.StrFlags[a[1]]), subkind |-> a[1]]

stringPadded(t, p) == [err |-> p.err, vals |-> p.vals, subkind |-> t.subkind]

stringSized(t, size) ==
    IF t.err # "" THEN t
    ELSE IF ~size.ok
        THEN [err |-> "failed to parse string length", vals |-> <<>>, subkind |-> ""]
    ELSE stringPadded(t, padVals(t.vals, size.val))

stringVals(a, D, consts) ==
    IF Len(a) > 2 THEN [err |-> ErrArity, vals |-> <<>>, subkind |-> ""]
    ELSE IF Len(a) < 2 THEN stringRaw(a, D)
    ELSE stringSized(stringRaw(a, D), stringSize(a[2], consts))

\* case "proc": the parsed start value vs and stride vp, validated in int64
\* arithmetic against 1 << (size * 8)
procCheck(size, vs, vp) ==
    IF ~vs.ok THEN [err |-> "couldn't parse as int64", start |-> U64Zero, per |-> U64Zero]
    ELSE IF ~vp.ok THEN [err |-> "couldn't parse as int64", start |-> U64Zero, per |-> U64Zero]
    ELSE IF I64Lt(vp.val, U64(1))
        THEN [err |-> "values per proc should be >= 1", start |-> U64Zero, per |-> U64Zero]
    ELSE IF I64Ge(vs.val, Shl1(size * 8))
        THEN [err |-> "values overflow desired type", start |-> U64Zero, per |-> U64Zero]
    ELSE IF I64Ge(LAdd(vs.val, LMulSmall(vp.val, maxPids, 0), 0), Shl1(size * 8))
        THEN [err |-> "not enough values for 32 procs", start |-> U64Zero, per |-> U64Zero]
    ELSE [err |-> "", start |-> vs.val, per |-> vp.val]

procVals(size, valuesStart, valuesPerProc) ==
    procCheck(size, ParseInt(valuesStart), ParseInt(valuesPerProc))

PlainIntTypes == {"int8", "int16", "int32", "int64", "intptr",
                  "int16be", "int32be", "int64be", "intptrbe"}

LenTypes == {"len", "bytesize", "bytesize2", "bytesize4", "bytesize8"}

\* What one run of generateArg works with: the name and direction, the
\* parameters a with "opt" removed, the storage behind them, the optional
\* flag, the context flags, desc.Unnamed and skipCurrentSyscall.
Ctx(name, dir, a0, isArg, isField, unnamed, skip) ==
    [name |-> name, dir |-> dir, a |-> OptParams(a0), store |-> OptStorage(a0),
     opt |-> OptIndex(a0) # 0, isArg |-> isArg, isField |-> isField,
     unnamed |-> unnamed, skip |-> skip]

\* common()
Hdr(c) == Common(c.name, c.dir, c.opt)

Fail(c, msg) == Result(msg, NoNode, c.store, c.unnamed, c.skip)

Out(c, node) == Emit(c.dir, node, c.store, c.unnamed, c.skip)

\* a compiler without the canBeArg check: every construct passes as a syscall
\* argument (the variant C3 has to tell from the code)
ArgUnchecked(c, r) == r

\* if isArg && !canBeArg { failf(...) }
NotArg(c, r) ==
    IF r.err = "" /\ c.isArg THEN [r EXCEPT !.err = ErrCantBeArg, !.node = NoNode] ELSE r

genFileoff(c, f) ==
    IF f.err # "" THEN Fail(c, f.err)
    ELSE Out(c, [k |-> "IntType", hdr |-> Hdr(c), TypeSize |-> f.size,
                 BigEndian |-> f.bigEndian, Kind |-> "IntFileoff"])

\* a buffer whose pointer is always "in" and never optional and whose inner
\* buffer has the direction and the optional flag of the construct (the
\* variant C8 has to tell from the code)
genBufferInward(c) ==
    IF Len(c.a) # 1 THEN Fail(c, ErrArity)
    ELSE Out(c, [k |-> "PtrType", hdr |-> Common(c.name, "in", FALSE),
                 Type |-> [k |-> "BufferType", hdr |-> Hdr(c), Kind |-> "BufferBlobRand"]])

\* the pointer keeps the header built before dir and opt are overwritten; the
\* buffer inside gets the direction parameter and is never optional
genBuffer(c) ==
    IF Len(c.a) # 1 THEN Fail(c, ErrArity)
    ELSE IF fmtDir(c.a[1]) = "bad direction" THEN Fail(c, "bad direction")
    ELSE Out(c, [k |-> "PtrType", hdr |-> Hdr(c),
                 Type |-> [k |-> "BufferType", hdr |-> Common(c.name, c.a[1], FALSE),
                           Kind |-> "BufferBlobRand"]])

genString(c, v) ==
    IF v.err # "" THEN Fail(c, v.err)
    ELSE NotArg(c, Out(c, [k |-> "BufferType", hdr |-> Hdr(c), Kind |-> "BufferString",
                           SubKind |-> v.subkind, Values |-> v.vals]))

genSalg(c, kind) ==
    IF Len(c.a) # 0 THEN Fail(c, ErrArity)
    ELSE NotArg(c, Out(c, [k |-> "BufferType", hdr |-> Hdr(c), Kind |-> kind]))

genVmaRange(c, r) ==
    IF ~r.ok THEN Fail(c, "bad range")
    ELSE Out(c, [k |-> "VmaType", hdr |-> Hdr(c), RangeBegin |-> r.begin, RangeEnd |-> r.end])

genVma(c, consts) ==
    IF Len(c.a) > 1 THEN Fail(c, ErrArity)
    ELSE IF Len(c.a) = 0 THEN genVmaRange(c, [ok |-> TRUE, begin |-> "0", end |-> "0"])
    ELSE genVmaRange(c, parseRange(c.a[1], consts))

genLen(c, typ, f) ==
    IF f.err # "" THEN Fail(c, f.err)
    ELSE Out(c, [k |-> "LenType", hdr |-> Hdr(c), Buf |-> c.a[1], TypeSize |-> f.size,
                 BigEndian |-> f.bigEndian,
                 ByteSize |-> IF typ # "len" THEN decodeByteSizeType(typ) ELSE 0])

\* a flag set with no value for the architecture compiles to a plain integer
genFlags(c, D, f) ==
    IF f.err # "" THEN Fail(c, f.err)
    ELSE IF c.a[1] \notin DOMAIN D.Flags THEN Fail(c, "unknown flag")
    ELSE IF Len(D.Flags[c.a[1]]) = 0
        THEN Out(c, [k |-> "IntType", hdr |-> Hdr(c), TypeSize |-> f.size,
                     BigEndian |-> f.bigEndian, Kind |-> "IntPlain"])
    ELSE Out(c, [k |-> "FlagsType", hdr |-> Hdr(c), TypeSize |-> f.size,
                 BigEndian |-> f.bigEndian, Vals |-> D.Flags[c.a[1]]])

\* the value of a const: the table's value, 0 for an identifier the table
\* does not have, else the token itself
constVal(tok, consts) ==
    IF tok \in DOMAIN consts THEN SprintU(consts[tok])
    ELSE IF isIdentifier(tok) THEN "0"
    ELSE tok

\* the skip reason after a const: skipSyscall is called for an identifier the
\* table does not have
constSkip(tok, consts, skip) ==
    IF tok \notin DOMAIN consts /\ isIdentifier(tok)
        THEN skipSyscall(skip, "missing const " \o tok)
    ELSE skip

genConst(c, consts, f) ==
    IF f.err # "" THEN Fail(c, f.err)
    ELSE Emit(c.dir, [k |-> "ConstType", hdr |-> Hdr(c), TypeSize |-> f.size,
                      BigEndian |-> f.bigEndian, Val |-> constVal(c.a[1], consts)],
              c.store, c.unnamed, constSkip(c.a[1], consts, c.skip))

genProcVals(c, f, v) ==
    IF v.err # "" THEN Fail(c, v.err)
    ELSE Out(c, [k |-> "ProcType", hdr |-> Hdr(c), TypeSize |-> f.size,
                 BigEndian |-> f.bigEndian, ValuesStart |-> v.start,
                 ValuesPerProc |-> v.per])

genProc(c, f) ==
    IF f.err # "" THEN Fail(c, f.err)
    ELSE IF c.isField THEN genProcVals(c, f, procVals(f.size, c.a[2], c.a[3]))
    ELSE genProcVals(c, f, procVals(f.size, c.a[1], c.a[2]))

genIntRange(c, d, r) ==
    IF ~r.ok THEN Fail(c, "bad range")
    ELSE Out(c, [k |-> "IntType", hdr |-> Hdr(c), TypeSize |-> d.size,
                 BigEndian |-> d.bigEndian, Kind |-> "IntRange",
                 RangeBegin |-> r.begin, RangeEnd |-> r.end])

genInt(c, consts, d) ==
    IF Len(c.a) = 0
        THEN Out(c, [k |-> "IntType", hdr |-> Hdr(c), TypeSize |-> d.size,
                     BigEndian |-> d.bigEndian, Kind |-> "IntPlain"])
    ELSE IF Len(c.a) = 1 THEN genIntRange(c, d, parseRange(c.a[1], consts))
    ELSE Fail(c, ErrArity)

genSignalno(c) ==
    IF Len(c.a) # 0 THEN Fail(c, ErrArity)
    ELSE Out(c, [k |-> "IntType", hdr |-> Hdr(c), TypeSize |-> 4,
                 BigEndian |-> FALSE, Kind |-> "IntSignalno"])

\* as for buffer: the pointer keeps the header built first, the buffer inside
\* is "in" and never optional
genFilename(c) ==
    IF Len(c.a) # 0 THEN Fail(c, ErrArity)
    ELSE Out(c, [k |-> "PtrType", hdr |-> Hdr(c),
                 Type |-> [k |-> "BufferType", hdr |-> Common(c.name, "in", FALSE),
                           Kind |-> "BufferFilename"]])

\* an array of int8 is a blob; any other element type is compiled by
\* generateType (e). An array cannot be a syscall argument.
genArrayOf(c, r, e) ==
    IF ~r.ok THEN Fail(c, "bad range")
    ELSE IF fmtDir(c.dir) = "bad direction" THEN Fail(c, "bad direction")
    ELSE IF c.a[1] = "int8"
        THEN IF Len(c.a) = 1
                 THEN NotArg(c, Out(c, [k |-> "BufferType", hdr |-> Hdr(c),
                                        Kind |-> "BufferBlobRand"]))
             ELSE NotArg(c, Out(c, [k |-> "BufferType", hdr |-> Hdr(c),
                                    Kind |-> "BufferBlobRange",
                                    RangeBegin |-> r.begin, RangeEnd |-> r.end]))
    ELSE IF e.err # "" THEN Fail(c, e.err)
    ELSE IF Len(c.a) = 1
        THEN NotArg(c, Result("", [k |-> "ArrayType", hdr |-> Hdr(c), Type |-> e.node,
                                   Kind |-> "ArrayRandLen"],
                              c.store, e.unnamed, e.skip))
    ELSE NotArg(c, Result("", [k |-> "ArrayType", hdr |-> Hdr(c), Type |-> e.node,
                               Kind |-> "ArrayRangeLen",
                               RangeBegin |-> r.begin, RangeEnd |-> r.end],
                          c.store, e.unnamed, e.skip))

\* the pointer is always "in"; the pointee e is compiled with the direction
\* parameter
genPtrTo(c, e) ==
    IF e.err # "" THEN Fail(c, e.err)
    ELSE Result("", [k |-> "PtrType", hdr |-> Common(c.name, "in", c.opt), Type |-> e.node],
                c.store, e.unnamed, e.skip)

\* an unnamed type is its inline specification e; the parameters of that
\* specification are stored in desc.Unnamed
genUnnamedOf(c, typ, inner, e) ==
    IF e.err # "" THEN Fail(c, e.err)
    ELSE NotArg(c, Result("", e.node, c.store,
                          [e.unnamed EXCEPT ![typ] = <<inner[1]>> \o e.a], e.skip))

genStruct(c, typ) ==
    IF Len(c.a) # 0 THEN Fail(c, "struct has args")
    ELSE NotArg(c, Result("", [k |-> "StructRef", key |-> <<typ, c.name, c.dir>>],
                          c.store, c.unnamed, c.skip))

genResource(c, typ) ==
    IF Len(c.a) # 0 THEN Fail(c, "resource has args")
    ELSE Out(c, [k |-> "ResourceType", hdr |-> Hdr(c), Desc |-> typ])

RECURSIVE generateArg(_, _, _, _, _, _, _, _, _, _)
RECURSIVE generateType(_, _, _, _, _, _)

\* the switch on typ
dispatch(typ, c, D, consts) ==
    CASE typ = "fileoff" -> genFileoff(c, intForm(c.a, c.isField, 1, 0, 1))
      [] typ = "buffer" -> genBuffer(c)
      [] typ = "string" -> genString(c, stringVals(c.a, D, consts))
      [] typ = "salg_type" -> genSalg(c, "BufferAlgType")
      [] typ = "salg_name" -> genSalg(c, "BufferAlgName")
      [] typ = "vma" -> genVma(c, consts)
      [] typ \in LenTypes -> genLen(c, typ, intForm(c.a, c.isField, 2, 1, 2))
      [] typ = "flags" -> genFlags(c, D, intForm(c.a, c.isField, 2, 1, 2))
      [] typ = "const" -> genConst(c, consts, intForm(c.a, c.isField, 2, 1, 2))
      [] typ = "proc" -> genProc(c, intForm(c.a, c.isField, 3, 2, 1))
      [] typ \in PlainIntTypes -> genInt(c, consts, decodeIntType(typ))
      [] typ = "signalno" -> genSignalno(c)
      [] typ = "filename" -> genFilename(c)
      [] typ = "array" ->
           IF Len(c.a) = 1
               THEN genArrayOf(c, [ok |-> TRUE, begin |-> "", end |-> ""],
                               generateType(c.a[1], c.dir, D, consts, c.unnamed, c.skip))
           ELSE IF Len(c.a) = 2
               THEN genArrayOf(c, parseRange(c.a[2], consts),
                               generateType(c.a[1], c.dir, D, consts, c.unnamed, c.skip))
           ELSE Fail(c, ErrArity)
      [] typ = "ptr" ->
           IF Len(c.a) # 2 THEN Fail(c, ErrArity)
           ELSE genPtrTo(c, generateType(c.a[2], c.a[1], D, consts, c.unnamed, c.skip))
      [] OTHER ->
           IF HasPrefix(typ, "unnamed")
               THEN IF typ \notin DOMAIN c.unnamed THEN Fail(c, "unknown unnamed type")
                    ELSE genUnnamedOf(c, typ, c.unnamed[typ],
                                      generateArg("", c.unnamed[typ][1], c.dir,
                                                  Tail(c.unnamed[typ]), D, consts,
                                                  FALSE, c.isField, c.unnamed, c.skip))
           ELSE IF typ \in DOMAIN D.Structs THEN genStruct(c, typ)
           ELSE IF typ \in DOMAIN D.Resources THEN genResource(c, typ)
           ELSE Fail(c, "unknown arg type")

\* generateArg(parent, name, typ, dir, a, desc, consts, isArg, isField, out).
\* parent is not read by the code and is left out; out is the node of the
\* result. unnamed is desc.Unnamed and skip is skipCurrentSyscall, both of
\* which a run can change. "opt" is looked for and removed first.
generateArg(name, typ, dir, a0, D, consts, isArg, isField, unnamed, skip) ==
    dispatch(typ, Ctx(name, dir, a0, isArg, isField, unnamed, skip), D, consts)

\* generateType: generateArg on a type name alone, into a buffer of its own
generateType(typ, dir, D, consts, unnamed, skip) ==
    generateArg("", typ, dir, <<>>, D, consts, FALSE, TRUE, unnamed, skip)

\* ------------------------------------------------------------------------
\* Ordering of names (sort.Sort by Name): byte-wise string comparison
\* ------------------------------------------------------------------------

AsciiOrder == "$0123456789ABCDEFGHIJKLMNOPQRSTUVWXYZ_abcdefghijklmnopqrstuvwxyz"

CharRank(c) == CHOOSE i \in 1..Len(AsciiOrder) : SubSeq(AsciiOrder, i, i) = c

RECURSIVE StrLess(_, _)
StrLess(a, b) ==
    IF b = "" THEN FALSE
    ELSE IF a = "" THEN TRUE
    ELSE IF Head(a) # Head(b) THEN CharRank(Head(a)) < CharRank(Head(b))
    ELSE StrLess(Tail(a), Tail(b))

RECURSIVE SortNames(_)
SortNames(S) ==
    IF S = {} THEN <<>>
    ELSE LET m == CHOOSE x \in S : \A y \in S \ {x} : StrLess(x, y)
         IN  <<m>> \o SortNames(S \ {m})

\* ------------------------------------------------------------------------
\* State
\* ------------------------------------------------------------------------

VARIABLES
    desc,           \* the parsed Description, shared by every architecture pass
    constFiles,     \* per architecture: the lines of its const files, in order
    arch,           \* index of the architecture being generated
    pc,             \* position of main / generate
    consts,         \* consts[arch.Name]: the constant tables read so far
    archFlags,      \* archDesc.Flags of the current architecture
    resQueue,       \* generateResources: the sorted resources still to emit
    walk,           \* generateResources: the ancestor walk of one resource
    outResources,   \* emitted Resources map
    structMap,      \* generateStructs: the struct instances (keys)
    structTodo,     \* generateStructs: instances whose fields are not filled
    outStructs,     \* emitted Structs map: key -> compiled fields
    callIdx,        \* generate: index of the next call
    skipCurrentSyscall,
    outCalls,       \* emitted call descriptors
    outConsts,      \* emitted constant definitions
    err             \* the message of failf, "" while running

vars == <<desc, constFiles, arch, pc, consts, archFlags, resQueue, walk, outResources,
          structMap, structTodo, outStructs, callIdx, skipCurrentSyscall, outCalls,
          outConsts, err>>


\* ------------------------------------------------------------------------
\* readConsts
\* ------------------------------------------------------------------------

\* The fixed call-number table of the pseudo-syscalls.
syzkalls == ("syz_test" :> U64(1000001))

Spaces == {" ", "\t"}

RECURSIVE TrimLeft(_)
TrimLeft(s) == IF s # "" /\ Head(s) \in Spaces THEN TrimLeft(Tail(s)) ELSE s

RECURSIVE TrimRight(_)
TrimRight(s) ==
    IF s # "" /\ SubSeq(s, Len(s), Len(s)) \in Spaces
        THEN TrimRight(SubSeq(s, 1, Len(s) - 1))
    ELSE s

TrimSpace(s) == TrimRight(TrimLeft(s))

\* strings.IndexByte(line, '='), 1-based, 0 when there is none
RECURSIVE IndexEq(_, _)
IndexEq(s, i) ==
    IF i > Len(s) THEN 0
    ELSE IF SubSeq(s, i, i) = "=" THEN i
    ELSE IndexEq(s, i + 1)

\* m[k] = v
MapPut(m, k, v) == [n \in DOMAIN m \cup {k} |-> IF n = k THEN v ELSE m[n]]

\* the scanner loop of readConsts over the lines of the const files
RECURSIVE readLines(_, _)
\* failf("const %v has different values for %v: %v vs %v", name, arch, old, val)
differentValues(name, old, val) ==
    "const " \o name \o " has different values: " \o SprintU(old) \o " vs " \o SprintU(val)

\* a scanner that takes the last value of a name, whatever it had before
\* (the variant C11 has to tell from the code)
readLineLastWins(lines, table, name, val) ==
    IF ~val.ok THEN [err |-> "malformed const file: bad value", table |-> table]
    ELSE readLines(Tail(lines), MapPut(table, name, val.val))

\* consts[name] = val for a line "name = val"; a name seen before must have
\* the same value
readLine(lines, table, name, val) ==
    IF ~val.ok THEN [err |-> "malformed const file: bad value", table |-> table]
    ELSE IF name \in DOMAIN table /\ table[name] # val.val
        THEN [err |-> differentValues(name, table[name], val.val), table |-> table]
    ELSE readLines(Tail(lines), MapPut(table, name, val.val))

\* the line is split at its first '='
splitLine(lines, table, line, eq) ==
    IF eq = 0 THEN [err |-> "malformed const file: no '='", table |-> table]
    ELSE readLine(lines, table, TrimSpace(SubSeq(line, 1, eq - 1)),
                  ParseUint0(TrimSpace(SubSeq(line, eq + 1, Len(line)))))

readLines(lines, table) ==
    IF lines = <<>> THEN [err |-> "", table |-> table]
    ELSE IF Head(lines) = "" \/ Head(Head(lines)) = "#" THEN readLines(Tail(lines), table)
    ELSE splitLine(lines, table, Head(lines), IndexEq(Head(lines), 1))

RECURSIVE putSyzkalls(_, _)
putSyzkalls(names, table) ==
    IF names = {} THEN table
    ELSE LET n == CHOOSE x \in names : TRUE
         IN  putSyzkalls(names \ {n}, MapPut(table, "__NR_" \o n, syzkalls[n]))

\* the pseudo-syscall numbers are put over what the files gave
withSyzkalls(r) ==
    IF r.err # "" THEN r
    ELSE [err |-> "", table |-> putSyzkalls(DOMAIN syzkalls, r.table)]

readConsts(lines) == withSyzkalls(readLines(lines, <<>>))

\* ------------------------------------------------------------------------
\* main: the Flag Value Resolver
\* ------------------------------------------------------------------------

\* a resolver that leaves an identifier the table does not have in the flag
\* set, as text (the variant C6 has to tell from the code)
flagValKept(val, table, rest) ==
    IF val \in DOMAIN table THEN <<SprintU(table[val])>> \o rest ELSE <<val>> \o rest

\* one value of a flag set: an identifier is replaced by its constant and
\* dropped when the table does not have it; any other token is kept
flagVal(val, table, rest) ==
    IF isIdentifier(val)
        THEN IF val \in DOMAIN table THEN <<SprintU(table[val])>> \o rest
             ELSE rest
    ELSE <<val>> \o rest

RECURSIVE resolveFlagVals(_, _)
resolveFlagVals(vals, table) ==
    IF vals = <<>> THEN <<>>
    ELSE flagVal(Head(vals), table, resolveFlagVals(Tail(vals), table))

\* ------------------------------------------------------------------------
\* generateResources
\* ------------------------------------------------------------------------

\* a resolver that puts every value of a resource behind the values after
\* it (the variant C5 has to tell from the code)
resValueBehind(v, table, rest) ==
    IF v \in DOMAIN table THEN rest \o <<SprintU(table[v])>>
    ELSE IF ~isIdentifier(v) THEN rest \o <<v>>
    ELSE rest

\* one value of a resource: its constant, else the token itself unless it is
\* an identifier
resValue(v, table, rest) ==
    IF v \in DOMAIN table THEN <<SprintU(table[v])>> \o rest
    ELSE IF ~isIdentifier(v) THEN <<v>> \o rest
    ELSE rest

\* values1: the resource's own values through the constant table
RECURSIVE resolveResValues(_, _)
resolveResValues(vals, table) ==
    IF vals = <<>> THEN <<>>
    ELSE resValue(Head(vals), table, resolveResValues(Tail(vals), table))


\* ------------------------------------------------------------------------
\* Bounds of the model
\* ------------------------------------------------------------------------

\* the number of target architectures (the archs list)
NumArchs == 2

\* on a cyclic Base chain kind and values grow without bound; the model keeps
\* their most recent MaxKind / MaxVals entries, and of the length of kind
\* beyond MaxKind whether it is odd
MaxKind == 4

MaxVals == 8

Trunc(seq, n) == IF Len(seq) > n THEN SubSeq(seq, 1, n) ELSE seq

\* ------------------------------------------------------------------------
\* Steps of main and generate
\* ------------------------------------------------------------------------

NoWalk == [name |-> "", cur |-> "", kind |-> <<>>, values |-> <<>>, odd |-> FALSE]

\* archDesc: the Description with the architecture's flag values
archDesc == [desc EXCEPT !.Flags = archFlags]

\* failf: the message is printed and the process exits
failf(msg) ==
    /\ pc' = "failed"
    /\ err' = msg
    /\ UNCHANGED <<desc, constFiles, arch, consts, archFlags, resQueue, walk, outResources,
                   structMap, structTodo, outStructs, callIdx, skipCurrentSyscall,
                   outCalls, outConsts>>

\* main: consts[arch.Name] = readConsts(arch.Name)
storeConsts(r) ==
    IF r.err # "" THEN failf(r.err)
    ELSE /\ consts' = Append(consts, r.table)
         /\ pc' = "flags"
         /\ UNCHANGED <<desc, constFiles, arch, archFlags, resQueue, walk,
                        outResources, structMap, structTodo, outStructs, callIdx,
                        skipCurrentSyscall, outCalls, outConsts, err>>

ReadConsts ==
    /\ pc = "readConsts"
    /\ storeConsts(readConsts(constFiles[arch]))

\* main: every flag set through the architecture's constant table; then
\* generate starts on a fresh output buffer and generateResources sorts the
\* resources by name
ResolveFlags ==
    /\ pc = "flags"
    /\ archFlags' = [f \in DOMAIN desc.Flags |-> resolveFlagVals(desc.Flags[f], consts[arch])]
    /\ resQueue' = SortNames(DOMAIN desc.Resources)
    /\ walk' = NoWalk
    /\ outResources' = <<>>
    /\ outStructs' = <<>>
    /\ outCalls' = <<>>
    /\ outConsts' = <<>>
    /\ structMap' = {}
    /\ structTodo' = {}
    /\ pc' = "resources"
    /\ UNCHANGED <<desc, constFiles, arch, consts, callIdx, skipCurrentSyscall, err>>

\* generateResources: the next resource of the sorted array
ResBegin ==
    /\ pc = "resources"
    /\ walk = NoWalk
    /\ resQueue # <<>>
    /\ walk' = [name |-> Head(resQueue), cur |-> Head(resQueue),
                kind |-> <<Head(resQueue)>>, values |-> <<>>, odd |-> FALSE]
    /\ resQueue' = Tail(resQueue)
    /\ UNCHANGED <<desc, constFiles, arch, pc, consts, archFlags, outResources, structMap,
                   structTodo, outStructs, callIdx, skipCurrentSyscall, outCalls,
                   outConsts, err>>

\* the descriptor emitted once the walk has reached a primitive kind; t is
\* the compiled underlying type
resourceDesc(name, t, kind, values) ==
    [Name |-> name, Type |-> t.node, Kind |-> kind,
     Values |-> IF Len(values) = 0 THEN <<"0">> ELSE values]

\* the underlying type of a resource
resourceType(underlying) ==
    generateArg("resource-type", underlying, "inout", <<>>, archDesc, consts[arch],
                TRUE, TRUE, desc.Unnamed, skipCurrentSyscall)

\* one iteration of the ancestor loop on resource res, values being the
\* value list with the values of res put in front
resStep(res, values) ==
    IF res.Base \in IntTypeNames
        THEN /\ outResources' = MapPut(outResources, walk.name,
                                       resourceDesc(walk.name, resourceType(res.Base),
                                                    walk.kind, values))
             /\ walk' = NoWalk
             /\ UNCHANGED <<desc, constFiles, arch, pc, consts, archFlags, resQueue,
                            structMap, structTodo, outStructs, callIdx,
                            skipCurrentSyscall, outCalls, outConsts, err>>
    ELSE IF res.Base \notin DOMAIN desc.Resources
        THEN failf("resource has unknown parent resource")
    ELSE /\ walk' = [walk EXCEPT !.cur = res.Base,
                                 !.kind = Trunc(<<res.Base>> \o walk.kind, MaxKind),
                                 !.values = Trunc(values, MaxVals),
                                 !.odd = IF Len(walk.kind) >= MaxKind THEN ~walk.odd
                                         ELSE FALSE]
         /\ UNCHANGED <<desc, constFiles, arch, pc, consts, archFlags, resQueue,
                        outResources, structMap, structTodo, outStructs, callIdx,
                        skipCurrentSyscall, outCalls, outConsts, err>>

\* generateResources: one iteration of the ancestor loop; on a primitive Base
\* the loop is left and the descriptor is emitted
ResHop ==
    /\ pc = "resources"
    /\ walk # NoWalk
    /\ resStep(desc.Resources[walk.cur],
               resolveResValues(desc.Resources[walk.cur].Values, consts[arch])
                   \o walk.values)

\* the struct instances of pass 1: every struct under (name, "", dir) and
\* every struct-typed field under (type, field name, dir)
structKeys ==
    LET S == desc.Structs
        fieldKeys == UNION {{<<S[n].Flds[i][2], S[n].Flds[i][1], d>> :
                                i \in 1..Len(S[n].Flds), d \in Directions} :
                            n \in DOMAIN S}
    IN  {<<n, "", d>> : n \in DOMAIN S, d \in Directions}
        \cup {k \in fieldKeys : k[1] \in DOMAIN S}

\* generateStructEntry
generateStructEntry(key) ==
    [typ |-> IF desc.Structs[key[1]].IsUnion THEN "UnionType" ELSE "StructType",
     hdr |-> Common(IF key[2] = "" THEN key[1] ELSE key[2], key[3], FALSE),
     Fields |-> <<>>]

\* generateResources is done; generateStructs, pass 1: the instances are
\* created and their entries emitted
StructsPass1 ==
    /\ pc = "resources"
    /\ walk = NoWalk
    /\ resQueue = <<>>
    /\ structMap' = structKeys
    /\ structTodo' = structKeys
    /\ outStructs' = [key \in structKeys |-> generateStructEntry(key)]
    /\ pc' = "structFields"
    /\ UNCHANGED <<desc, constFiles, arch, consts, archFlags, resQueue, walk, outResources,
                   callIdx, skipCurrentSyscall, outCalls, outConsts, err>>

\* a list of (name, type, params...) specifications compiled in order, each
\* run of generateArg working on the token arrays the earlier runs left
RECURSIVE generateList(_, _, _, _, _, _, _, _, _)
listCons(r, rest) == [rest EXCEPT !.nodes = <<r.node>> \o rest.nodes]

\* r is the outcome of generateArg on specs[i], specs1 the list with the
\* storage that run left
listStep(specs1, i, dir, D, table, isArg, isField, r) ==
    IF r.err # ""
        THEN [err |-> r.err, nodes |-> <<>>, specs |-> specs1,
              unnamed |-> r.unnamed, skip |-> r.skip]
    ELSE listCons(r, generateList(specs1, i + 1, dir, D, table, isArg, isField,
                                  r.unnamed, r.skip))

listRun(specs, i, dir, D, table, isArg, isField, r) ==
    listStep([specs EXCEPT ![i] = <<specs[i][1], specs[i][2]>> \o r.a],
             i, dir, D, table, isArg, isField, r)

generateList(specs, i, dir, D, table, isArg, isField, unnamed, skip) ==
    IF i > Len(specs)
        THEN [err |-> "", nodes |-> <<>>, specs |-> specs, unnamed |-> unnamed, skip |-> skip]
    ELSE listRun(specs, i, dir, D, table, isArg, isField,
                 generateArg(specs[i][1], specs[i][2], dir, SubSeq(specs[i], 3, Len(specs[i])),
                             D, table, isArg, isField, unnamed, skip))

\* generateStructFields
generateStructFields(key) ==
    generateList(desc.Structs[key[1]].Flds, 1, key[3], archDesc, consts[arch],
                 FALSE, TRUE, desc.Unnamed, skipCurrentSyscall)

\* the compiled fields r of instance key are stored
storeFields(key, r) ==
    IF r.err # "" THEN failf(r.err)
    ELSE /\ desc' = [desc EXCEPT !.Structs[key[1]].Flds = r.specs,
                                 !.Unnamed = r.unnamed]
         /\ skipCurrentSyscall' = r.skip
         /\ outStructs' = [outStructs EXCEPT ![key].Fields = r.nodes]
         /\ structTodo' = structTodo \ {key}
         /\ UNCHANGED <<constFiles, arch, pc, consts, archFlags, resQueue, walk,
                        outResources, structMap, callIdx, outCalls, outConsts, err>>

\* generateStructs, pass 2: the fields of one instance (the instances are
\* visited in the order of a map iteration, which is any order)
StructFields ==
    /\ pc = "structFields"
    /\ \E key \in structTodo : storeFields(key, generateStructFields(key))

StructsDone ==
    /\ pc = "structFields"
    /\ structTodo = {}
    /\ pc' = "calls"
    /\ callIdx' = 1
    /\ UNCHANGED <<desc, constFiles, arch, consts, archFlags, resQueue, walk, outResources,
                   structMap, structTodo, outStructs, skipCurrentSyscall, outCalls,
                   outConsts, err>>

\* syscallNR := -1
Unavailable == LNeg(U64(1))

\* int(nr): the uint64 read as a signed integer of the same width
IntOfU64(nr) == nr

\* the number of the call in the constant table, -1 when it has none
lookupNR(callName, table) ==
    IF ("__NR_" \o callName) \in DOMAIN table
        THEN IntOfU64(table["__NR_" \o callName])
    ELSE Unavailable

\* the NR emitted once Ret and Args are compiled
finalNR(nr, skip) == IF skip # "" THEN Unavailable ELSE nr

\* the descriptor of a call whose Ret compiled to ret and whose Args
\* compiled to args
callDesc(c, retStore, ret, args) ==
    IF args.err # ""
        THEN [err |-> args.err, call |-> NoNode, Ret |-> retStore, Args |-> args.specs,
              unnamed |-> args.unnamed, skip |-> args.skip]
    ELSE [err |-> "",
          call |-> [Name |-> c.Name, CallName |-> c.CallName, Ret |-> ret.node,
                    Args |-> args.nodes,
                    NR |-> SprintI(finalNR(lookupNR(c.CallName, consts[arch]), args.skip))],
          Ret |-> retStore, Args |-> args.specs,
          unnamed |-> args.unnamed, skip |-> args.skip]

\* the arguments are compiled after the return type ret
callArgs(c, retStore, ret) ==
    IF ret.err # ""
        THEN [err |-> ret.err, call |-> NoNode, Ret |-> retStore, Args |-> c.Args,
              unnamed |-> ret.unnamed, skip |-> ret.skip]
    ELSE callDesc(c, retStore, ret,
                  generateList(c.Args, 1, "in", archDesc, consts[arch], TRUE, FALSE,
                               ret.unnamed, ret.skip))

callRet(c, ret) == callArgs(c, <<c.Ret[1]>> \o ret.a, ret)

\* the body of the loop over desc.Syscalls for one call: skipCurrentSyscall
\* is reset, then Ret and Args are compiled
generateCall(c) ==
    IF Len(c.Ret) # 0
        THEN callRet(c, generateArg("ret", c.Ret[1], "out", Tail(c.Ret), archDesc,
                                    consts[arch], TRUE, FALSE, desc.Unnamed, ""))
    ELSE callArgs(c, c.Ret, Result("", NoNode, <<>>, desc.Unnamed, ""))

\* the descriptor r of the call is appended to the output
storeCall(r) ==
    IF r.err # "" THEN failf(r.err)
    ELSE /\ desc' = [desc EXCEPT !.Syscalls[callIdx].Ret = r.Ret,
                                 !.Syscalls[callIdx].Args = r.Args,
                                 !.Unnamed = r.unnamed]
         /\ skipCurrentSyscall' = r.skip
         /\ outCalls' = Append(outCalls, r.call)
         /\ callIdx' = callIdx + 1
         /\ UNCHANGED <<constFiles, arch, pc, consts, archFlags, resQueue, walk,
                        outResources, structMap, structTodo, outStructs, outConsts, err>>

\* generate: one call of desc.Syscalls
GenerateCall ==
    /\ pc = "calls"
    /\ callIdx <= Len(desc.Syscalls)
    /\ storeCall(generateCall(desc.Syscalls[callIdx]))

\* the constants sorted by name
constList(names, table) ==
    [i \in 1..Len(names) |-> <<names[i], SprintU(table[names[i]])>>]

sortedConsts(table) == constList(SortNames(DOMAIN table), table)

\* generate: the calls are done, the constants are emitted and the source is
\* written; main goes on to the next architecture
FinishArch ==
    /\ pc = "calls"
    /\ callIdx > Len(desc.Syscalls)
    /\ outConsts' = sortedConsts(consts[arch])
    /\ IF arch < NumArchs
           THEN arch' = arch + 1 /\ pc' = "readConsts"
       ELSE arch' = arch /\ pc' = "done"
    /\ UNCHANGED <<desc, constFiles, consts, archFlags, resQueue, walk, outResources,
                   structMap, structTodo, outStructs, callIdx, skipCurrentSyscall,
                   outCalls, err>>


\* ------------------------------------------------------------------------
\* The inputs: const files and Descriptions
\* ------------------------------------------------------------------------

\* the longest flag set of the flag scenarios
MaxFlags == 3

ConstFileA == <<"# first architecture", "__NR_read = 0", "__NR_open=2", "O_RDONLY = 0",
                "O_WRONLY = 1", "FOO = 5", "SIZE = 0x4", "",
                "__NR_big = 0xffffffffffffffff", "O_RDONLY=0">>

ConstFileB == <<"__NR_read = 63", "O_RDONLY = 0", "O_WRONLY=01",
                "__NR_big = 0x8000000000000000">>

DefaultFiles == [i \in 1..NumArchs |-> IF i % 2 = 1 THEN ConstFileA ELSE ConstFileB]

ConstFilePool ==
    {DefaultFiles,
     [i \in 1..NumArchs |-> IF i % 2 = 1 THEN ConstFileB ELSE ConstFileA],
     [i \in 1..NumArchs |-> <<"A = 1", "A = 1", "A=0x1">>],
     [i \in 1..NumArchs |-> <<"A = 1", "B = 2", "A = 2">>],
     [i \in 1..NumArchs |-> IF i = 1 THEN ConstFileA ELSE <<"FOO = 5", "FOO = 6">>],
     [i \in 1..NumArchs |-> <<"A 1">>],
     [i \in 1..NumArchs |-> <<"A = 08">>],
     [i \in 1..NumArchs |-> <<"A = 18446744073709551616">>],
     [i \in 1..NumArchs |-> <<"__NR_syz_test = 7", "__NR_read = 1">>]}

\* the longest const file of the declaration scenarios
MaxDecls == 3

\* the lines they are made of: two spellings of one value, another value, a
\* pseudo-syscall number as the fixed table has it and not, a line without '='
DeclLines == {"A = 1", "A=0x1", " A = 2", "__NR_syz_test = 1000001", "__NR_syz_test=2",
              "A 1"}

DeclFiles == UNION {[1..k -> DeclLines] : k \in 0..MaxDecls}

DeclScenarios == {[i \in 1..NumArchs |-> f] : f \in DeclFiles}

BaseCalls ==
    <<[Name |-> "read", CallName |-> "read", Ret |-> <<"intptr">>,
       Args |-> << <<"fd", "fd">>, <<"buf", "buffer", "out">>, <<"n", "len", "buf">> >>],
      [Name |-> "open$v", CallName |-> "open", Ret |-> <<"fd">>,
       Args |-> << <<"file", "filename">>, <<"fl", "flags", "open_flags">> >>]>>

BaseStructs == ("S" :> [IsUnion |-> FALSE, Flds |-> << <<"f0", "int32">> >>])

BaseResources == ("fd" :> [Base |-> "int32", Values |-> <<>>])

BaseFlags == ("open_flags" :> <<"O_RDONLY", "O_WRONLY", "2">>)
             @@ ("no_flags" :> <<"NOPE">>)

BaseStrFlags == ("algs" :> <<"ab", "abcd">>) @@ ("one" :> <<"xyz">>)

BaseUnnamed ==
    ("unnamed0" :> <<"array", "int8">>)
    @@ ("unnamed1" :> <<"array", "int32", "2:4">>)
    @@ ("unnamed2" :> <<"array", "S">>)
    @@ ("unnamed3" :> <<"string", "\"abc\"", "4">>)
    @@ ("unnamed4" :> <<"const", "opt", "FOO", "int32">>)
    @@ ("unnamed5" :> <<"array", "int8", "SIZE">>)

BaseDesc ==
    [Syscalls |-> BaseCalls, Structs |-> BaseStructs, Resources |-> BaseResources,
     Flags |-> BaseFlags, StrFlags |-> BaseStrFlags, Unnamed |-> BaseUnnamed]

\* -- top-level arguments ---------------------------------------------------

ProcStarts == {"0", "-1", "-100", "223", "224", "255", "256", "65503", "65504",
               "4294967263", "4294967264", "4294967296", "9223372036854775775",
               "9223372036854775807", "-9223372036854775808", "x"}

ProcSteps == {"1", "0", "-1", "2", "8", "288230376151711744", "576460752303423488",
              "9223372036854775807", "y"}

ArgPool ==
    { <<"c", "const", "FOO">>, <<"c", "const", "NOPE">>, <<"c", "const", "3">>,
      <<"c", "const", "0x10">>, <<"c", "const", "opt", "FOO">>, <<"c", "const", "FOO", "opt">>,
      <<"c", "const", "opt", "NOPE">>, <<"c", "const">>, <<"c", "const", "FOO", "int32">>,
      <<"a", "array", "int8">>, <<"a", "array", "int32">>, <<"a", "array", "int8", "2:4">>,
      <<"a", "array", "int32", "SIZE">>, <<"a", "array", "S">>, <<"a", "array", "fd", "1:2">>,
      <<"a", "array", "int8", "opt">>, <<"a", "array", "opt", "int32", "3">>,
      <<"a", "array">>, <<"a", "array", "int8", "1", "2">>, <<"a", "array", "int8", "1:2:3">>,
      <<"a", "array", "bogus">>, <<"a", "array", "unnamed1">>,
      <<"s", "S">>, <<"s", "S", "opt">>, <<"s", "S", "x">>,
      <<"s", "string">>, <<"s", "string", "\"abc\"">>, <<"s", "string", "\"abc\"", "4">>,
      <<"s", "string", "algs">>, <<"s", "string", "algs", "5", "opt">>,
      <<"s", "string", "nope">>, <<"s", "string", "\"abc\"", "2">>,
      <<"s", "string", "a", "b", "c">>,
      <<"t", "salg_type">>, <<"t", "salg_name">>, <<"t", "salg_type", "opt">>,
      <<"t", "salg_name", "x">>,
      <<"p", "ptr", "in", "unnamed0">>, <<"p", "ptr", "in", "unnamed1">>,
      <<"p", "ptr", "out", "unnamed2">>, <<"p", "ptr", "in", "unnamed3">>,
      <<"p", "ptr", "in", "unnamed4">>, <<"p", "ptr", "inout", "unnamed5">>,
      <<"p", "ptr", "out", "S">>, <<"p", "ptr", "inout", "S", "opt">>,
      <<"p", "ptr", "opt", "in", "S">>, <<"p", "ptr", "bogus", "S">>,
      <<"p", "ptr", "bogus", "unnamed0">>, <<"p", "ptr", "in">>, <<"p", "ptr", "in", "unnamed9">>,
      <<"p", "ptr", "in", "int32">>, <<"p", "ptr", "in", "array">>,
      <<"b", "buffer", "in">>, <<"b", "buffer", "out">>, <<"b", "buffer", "inout">>,
      <<"b", "buffer", "out", "opt">>, <<"b", "buffer", "opt", "out">>, <<"b", "buffer">>,
      <<"b", "buffer", "sideways">>, <<"b", "buffer", "opt", "inout">>,
      <<"f", "filename">>, <<"f", "filename", "opt">>, <<"f", "filename", "x">>,
      <<"o", "fileoff">>, <<"o", "fileoff", "int32">>,
      <<"v", "vma">>, <<"v", "vma", "FOO:9">>, <<"v", "vma", "3", "4">>,
      <<"l", "len", "buf">>, <<"l", "bytesize4", "buf", "opt">>, <<"l", "len">>,
      <<"fl", "flags", "open_flags">>, <<"fl", "flags", "no_flags">>,
      <<"fl", "flags", "gone">>, <<"fl", "flags", "opt", "open_flags">>,
      <<"i", "int32">>, <<"i", "int16be", "FOO:NOPE">>, <<"i", "intptr", "1", "2">>,
      <<"i", "int64", "opt", "1:2">>,
      <<"g", "signalno">>, <<"g", "signalno", "1">>,
      <<"r", "fd">>, <<"r", "fd", "opt">>, <<"r", "fd", "x">>,
      <<"u", "unnamed0">>, <<"u", "unnamed9">>, <<"u", "bogus">> }
    \cup {<<"pid", "proc", v, p>> : v \in ProcStarts, p \in ProcSteps}
    \cup {<<"pid", "proc", "int32", "0", "1">>, <<"pid", "proc", "opt", "0", "1">>}

\* the CallName and Ret of the varied call
CallHeads ==
    { [CallName |-> "read", Ret |-> <<>>],
      [CallName |-> "open", Ret |-> <<"fd">>],
      [CallName |-> "nope", Ret |-> <<"intptr">>],
      [CallName |-> "big", Ret |-> <<"buffer", "in", "opt">>],
      [CallName |-> "syz_test", Ret |-> <<"filename", "opt">>] }

\* the arguments tried under every head, twice in one call
IsHeadVaried(a) == a[2] \in {"const", "buffer", "filename"}

CallScenarios ==
    {[BaseDesc EXCEPT !.Syscalls =
          <<[Name |-> h.CallName \o "$v", CallName |-> h.CallName, Ret |-> h.Ret,
             Args |-> <<a>>]>> \o <<BaseCalls[1]>>] :
        h \in {x \in CallHeads : x.CallName \in {"read", "nope"}}, a \in ArgPool}
    \cup
    {[BaseDesc EXCEPT !.Syscalls =
          <<BaseCalls[2],
            [Name |-> h.CallName \o "$v", CallName |-> h.CallName, Ret |-> h.Ret,
             Args |-> <<a, <<"n", "intptr">>, a>>]>>] :
        h \in CallHeads, a \in {x \in ArgPool : IsHeadVaried(x)}}
    \cup
    {[BaseDesc EXCEPT !.Syscalls =
          <<[Name |-> "ret", CallName |-> "read", Ret |-> Tail(a), Args |-> <<>>]>>] :
        a \in {x \in ArgPool : Len(x) >= 3 /\ x[2] \in {"ptr", "array", "buffer", "string"}}}


\* the arrays given inline and the struct, each once as the pointee of a ptr
\* argument and once as a bare argument of a later call
Pointees == {"unnamed0", "unnamed1", "unnamed2", "unnamed5", "S"}

BareOf(u) == IF u \in DOMAIN BaseUnnamed THEN <<"a">> \o BaseUnnamed[u] ELSE <<"a", u>>

WrapScenarios ==
    {[BaseDesc EXCEPT !.Syscalls =
          <<[Name |-> "wrapped", CallName |-> "read", Ret |-> <<>>,
             Args |-> << <<"p", "ptr", d, u>> >>],
            [Name |-> "bare", CallName |-> "open", Ret |-> <<"intptr">>,
             Args |-> << <<"n", "int32">>, BareOf(u) >>]>>] :
        u \in Pointees, d \in Directions}


\* -- struct fields -----------------------------------------------------------

StringValues == {"\"\"", "\"a\"", "\"abc\"", "algs", "one", "\""}

StringSizes == {"0", "1", "2", "3", "4", "5", "6", "SIZE", "FOO", "x"}

ProcTypes == {"int8", "int16", "int32", "int64"}

FieldPool ==
    { <<"f", "int32">>, <<"f", "int8", "opt">>, <<"f", "intptrbe", "0:FOO">>,
      <<"c", "const", "FOO", "int32">>, <<"c", "const", "NOPE", "int16be">>,
      <<"c", "const", "opt", "FOO", "int32">>, <<"c", "const", "FOO", "opt", "int8">>,
      <<"c", "const", "FOO", "int64", "opt">>, <<"c", "const", "FOO">>,
      <<"c", "const", "FOO", "int7">>,
      <<"b", "buffer", "in">>, <<"b", "buffer", "out">>, <<"b", "buffer", "out", "opt">>,
      <<"b", "buffer", "opt", "inout">>, <<"b", "buffer", "in", "opt">>,
      <<"n", "filename">>, <<"n", "filename", "opt">>,
      <<"s", "string">>, <<"s", "string", "opt">>, <<"s", "string", "opt", "\"abc\"", "4">>,
      <<"s", "string", "\"abc\"", "4", "opt">>, <<"s", "string", "gone">>,
      <<"t", "salg_type">>, <<"t", "salg_name", "opt">>,
      <<"a", "array", "int8">>, <<"a", "array", "int16", "FOO">>, <<"a", "array", "opt", "fd">>,
      <<"l", "len", "f0", "int32">>, <<"l", "bytesize", "f0", "int16be">>,
      <<"l", "bytesize8", "f0", "intptr", "opt">>, <<"l", "len", "f0">>,
      <<"fl", "flags", "open_flags", "int32">>, <<"fl", "flags", "no_flags", "int8", "opt">>,
      <<"fl", "flags", "open_flags", "int9">>,
      <<"o", "fileoff", "int64">>, <<"o", "fileoff">>,
      <<"v", "vma", "1:2">>, <<"g", "signalno">>,
      <<"r", "fd">>, <<"r", "fd", "opt">>,
      <<"p", "ptr", "in", "S">>, <<"p", "ptr", "opt", "out", "unnamed0">>,
      <<"u", "unnamed0">>, <<"u", "unnamed3">>, <<"u", "unnamed4">>, <<"u", "unnamed4", "opt">>,
      <<"u", "unnamed2">>, <<"p", "ptr", "out", "unnamed2">>, <<"p", "ptr", "bogus", "S">>,
      <<"me", "S">>, <<"x", "bogus">> }
    \cup {<<"s", "string", v>> : v \in StringValues}
    \cup {<<"s", "string", v, n>> : v \in StringValues, n \in StringSizes}
    \cup {<<"pid", "proc", t, v, p>> : t \in ProcTypes, v \in ProcStarts, p \in ProcSteps}
    \cup {<<"pid", "proc", "0", "1">>, <<"pid", "proc", "intptr", "0", "1", "opt">>,
          <<"pid", "proc", "opt", "int16be", "0", "8">>, <<"pid", "proc", "int12", "0", "1">>}

FieldScenarios ==
    {[BaseDesc EXCEPT !.Structs =
          ("S" :> [IsUnion |-> FALSE, Flds |-> <<f>>])] : f \in FieldPool}
    \cup
    {[BaseDesc EXCEPT !.Structs =
          ("S" :> [IsUnion |-> TRUE, Flds |-> << <<"f0", "int32">>, f, <<"f2", "int8">> >>])] :
        f \in {x \in FieldPool : x[2] \in {"const", "buffer", "filename"}}}
    \cup
    {[BaseDesc EXCEPT !.Structs =
          ("S" :> [IsUnion |-> FALSE, Flds |-> << <<"t", "T">>, <<"f1", "int8">> >>])
          @@ ("T" :> [IsUnion |-> TRUE, Flds |-> << <<"c", "const", "FOO", "int8", "opt">> >>])]}

\* -- resource tables ---------------------------------------------------------

ResNames == {"fd", "sock", "tcp"}

ResPrimitive == ("fd" :> "int32") @@ ("sock" :> "intptr") @@ ("tcp" :> "int8")

ResValues ==
    { ("fd" :> <<"FOO", "7">>) @@ ("sock" :> <<"NOPE">>) @@ ("tcp" :> <<"O_WRONLY", "0x1">>),
      ("fd" :> <<>>) @@ ("sock" :> <<"NOPE", "NOPE">>) @@ ("tcp" :> <<>>) }

ResBases(n) == {ResPrimitive[n], "gone"} \cup ResNames

ResTables ==
    {[n \in ResNames |-> [Base |-> b[n], Values |-> v[n]]] :
        b \in {x \in [ResNames -> UNION {ResBases(n) : n \in ResNames}] :
                   \A n \in ResNames : x[n] \in ResBases(n)},
        v \in ResValues}
    \cup {("fd" :> [Base |-> "int64", Values |-> <<"SIZE">>])}

ResScenarios == {[BaseDesc EXCEPT !.Resources = t] : t \in ResTables}

\* -- flag sets ---------------------------------------------------------------

FlagTokens == {"O_WRONLY", "NOPE", "2", "0x10", "FOO"}

FlagSets == UNION {[1..k -> FlagTokens] : k \in 0..MaxFlags}

FlagScenarios ==
    {[BaseDesc EXCEPT !.Flags = BaseFlags @@ ("more_flags" :> fs)] : fs \in FlagSets}

\* ------------------------------------------------------------------------
\* Specification
\* ------------------------------------------------------------------------

Scenarios ==
    {[desc |-> d, files |-> DefaultFiles] :
        d \in CallScenarios \cup WrapScenarios \cup FieldScenarios \cup ResScenarios
                  \cup FlagScenarios}
    \cup {[desc |-> BaseDesc, files |-> f] : f \in ConstFilePool \cup DeclScenarios}

Init ==
    /\ \E sc \in Scenarios : desc = sc.desc /\ constFiles = sc.files
    /\ arch = 1
    /\ pc = "readConsts"
    /\ consts = <<>>
    /\ archFlags = <<>>
    /\ resQueue = <<>>
    /\ walk = NoWalk
    /\ outResources = <<>>
    /\ structMap = {}
    /\ structTodo = {}
    /\ outStructs = <<>>
    /\ callIdx = 1
    /\ skipCurrentSyscall = ""
    /\ outCalls = <<>>
    /\ outConsts = <<>>
    /\ err = ""

Next ==
    \/ ReadConsts
    \/ ResolveFlags
    \/ ResBegin
    \/ ResHop
    \/ StructsPass1
    \/ StructFields
    \/ StructsDone
    \/ GenerateCall
    \/ FinishArch

Spec == Init /\ [][Next]_vars

\* main is one sequential process: the ancestor loop of generateResources
\* goes on to its next iteration for as long as it has one
FairSpec == Spec /\ WF_vars(ResHop)

\* ------------------------------------------------------------------------
\* Properties: the steps they are about
\* ------------------------------------------------------------------------

\* generate is about to compile call number callIdx
CallStep == pc = "calls" /\ callIdx <= Len(desc.Syscalls)

\* the step compiled the call and emitted its descriptor
CallEmitted == CallStep /\ pc' = "calls" /\ callIdx' = callIdx + 1

\* the step ended in failf
CallFailed == CallStep /\ pc' = "failed"

\* the parameters a specification (name, type, params...) hands to generateArg
ParamsOf(spec) == SubSeq(spec, 3, Len(spec))

\* the parameters the constructs see, "opt" removed
SeenParams(spec) == OptParams(ParamsOf(spec))

\* the specifications of a call in the order generate compiles them: Ret
\* under the name "ret", then Args
CallSpecs(c) == (IF Len(c.Ret) # 0 THEN << <<"ret">> \o c.Ret >> ELSE <<>>) \o c.Args

\* the direction generate compiles specification i of CallSpecs(c) with
CallDir(c, i) == IF Len(c.Ret) # 0 /\ i = 1 THEN "out" ELSE "in"

\* the nodes of an emitted descriptor d, in the order of CallSpecs
CallNodes(c, d) == (IF Len(c.Ret) # 0 THEN <<d.Ret>> ELSE <<>>) \o d.Args

\* ------------------------------------------------------------------------
\* C1
\* ------------------------------------------------------------------------

\* a top-level const argument whose value token is an identifier that the
\* architecture's constant table does not have
MissingConstArg(spec, table) ==
    /\ spec[2] = "const"
    /\ Len(SeenParams(spec)) = 1
    /\ isIdentifier(SeenParams(spec)[1])
    /\ SeenParams(spec)[1] \notin DOMAIN table

\* C1: for every call and architecture, a const argument of the call whose
\* value token is identifier-shaped and absent from the architecture's
\* constant table compiles to a Const node of value 0 and makes the emitted
\* descriptor carry NR = -1, also when the table has the call's number.
C1_MissingConstMakesCallUnavailable ==
    [][CallEmitted =>
          \A j \in 1..Len(desc.Syscalls[callIdx].Args) :
              MissingConstArg(desc.Syscalls[callIdx].Args[j], consts[arch])
                  => /\ outCalls'[callIdx].Args[j].k = "ConstType"
                     /\ outCalls'[callIdx].Args[j].Val = "0"
                     /\ outCalls'[callIdx].NR = "-1"]_vars

\* ------------------------------------------------------------------------
\* C2
\* ------------------------------------------------------------------------

\* the NR the descriptor of a call is to carry: -1 when the table has no
\* "__NR_" + CallName, else the table's value
ExpectedNR(c, table) ==
    IF ("__NR_" \o c.CallName) \in DOMAIN table
        THEN SprintU(table["__NR_" \o c.CallName])
    ELSE "-1"

\* C2: every call that is compiled yields exactly one descriptor, in schema
\* order, whose NR is -1 when "__NR_" + CallName is absent from the
\* architecture's table and the table's value otherwise, with a node for
\* Ret when it is declared and one node per argument, in declaration order.
C2_DescriptorCarriesTableNumber ==
    [][CallEmitted =>
          /\ outCalls' = Append(outCalls, outCalls'[callIdx])
          /\ Len(outCalls') = callIdx
          /\ outCalls'[callIdx].Name = desc.Syscalls[callIdx].Name
          /\ outCalls'[callIdx].CallName = desc.Syscalls[callIdx].CallName
          /\ outCalls'[callIdx].NR = ExpectedNR(desc.Syscalls[callIdx], consts[arch])
          /\ (Len(desc.Syscalls[callIdx].Ret) # 0 => outCalls'[callIdx].Ret # NoNode)
          /\ Len(outCalls'[callIdx].Args) = Len(desc.Syscalls[callIdx].Args)
          /\ \A j \in 1..Len(desc.Syscalls[callIdx].Args) :
                 /\ outCalls'[callIdx].Args[j] # NoNode
                 /\ outCalls'[callIdx].Args[j].hdr.TypeName
                        = desc.Syscalls[callIdx].Args[j][1]]_vars

\* ------------------------------------------------------------------------
\* C3
\* ------------------------------------------------------------------------

\* the constructs that cannot be a syscall argument or return value: array,
\* string, salg_type, salg_name and a reference to a struct or union
BareTypes == {"array", "string", "salg_type", "salg_name"} \cup DOMAIN desc.Structs

\* a plain integer without parameters
PlainSpec(spec) == spec[2] \in PlainIntTypes /\ Len(spec) = 2

\* the construct is well-formed: it compiles where it need not be an argument
WellFormed(typ, dir, params) ==
    generateArg("", typ, dir, params, archDesc, consts[arch], FALSE, TRUE,
                desc.Unnamed, "").err = ""

\* a ptr argument whose pointee is a struct or union, or an array given
\* inline (the token list of the array is the Unnamed entry of the pointee)
WrappedSpec(spec) ==
    /\ spec[2] = "ptr"
    /\ Len(SeenParams(spec)) = 2
    /\ SeenParams(spec)[1] \in Directions
    /\ \/ SeenParams(spec)[2] \in DOMAIN desc.Structs
       \/ /\ SeenParams(spec)[2] \in DOMAIN desc.Unnamed
          /\ desc.Unnamed[SeenParams(spec)[2]][1] = "array"
          /\ WellFormed("array", SeenParams(spec)[1],
                        Tail(desc.Unnamed[SeenParams(spec)[2]]))

\* the pointee of a compiled ptr is the array (a blob for int8 elements) or
\* the struct reference
WrappedNode(node) ==
    /\ node.k = "PtrType"
    /\ node.Type.k \in {"ArrayType", "BufferType", "StructRef"}

\* specification i of the call is the first that is not a plain integer
FirstOther(specs, i) == \A j \in 1..(i - 1) : PlainSpec(specs[j])

\* C3: a call that has a bare array, struct or union reference, string,
\* salg_type or salg_name as Ret or as an argument always ends in a fatal
\* error, which is "can't be syscall argument/return" when the construct is
\* itself well-formed; a call whose arguments are such arrays and structs
\* as pointees of ptr compiles, each ptr to a Pointer node over the array
\* or struct.
C3_BareConstructsCannotBeArguments ==
    [][CallStep =>
          /\ (\E i \in 1..Len(CallSpecs(desc.Syscalls[callIdx])) :
                  CallSpecs(desc.Syscalls[callIdx])[i][2] \in BareTypes)
                 => CallFailed
          /\ \A i \in 1..Len(CallSpecs(desc.Syscalls[callIdx])) :
                 (/\ CallSpecs(desc.Syscalls[callIdx])[i][2] \in BareTypes
                  /\ FirstOther(CallSpecs(desc.Syscalls[callIdx]), i)
                  /\ WellFormed(CallSpecs(desc.Syscalls[callIdx])[i][2],
                                CallDir(desc.Syscalls[callIdx], i),
                                ParamsOf(CallSpecs(desc.Syscalls[callIdx])[i])))
                     => CallFailed /\ err' = ErrCantBeArg
          /\ (\A i \in 1..Len(CallSpecs(desc.Syscalls[callIdx])) :
                  \/ PlainSpec(CallSpecs(desc.Syscalls[callIdx])[i])
                  \/ WrappedSpec(CallSpecs(desc.Syscalls[callIdx])[i]))
                 => /\ CallEmitted
                    /\ \A i \in 1..Len(CallSpecs(desc.Syscalls[callIdx])) :
                           WrappedSpec(CallSpecs(desc.Syscalls[callIdx])[i])
                               => WrappedNode(CallNodes(desc.Syscalls[callIdx],
                                                        outCalls'[callIdx])[i])]_vars

\* an array has compiled as the pointee of a ptr argument and the same array
\* as a bare argument of the next call has been refused
C3_Witness ==
    /\ pc = "failed"
    /\ err = ErrCantBeArg
    /\ callIdx = 2
    /\ Len(outCalls) = 1
    /\ outCalls[1].Args[1].k = "PtrType"
    /\ outCalls[1].Args[1].Type.k = "ArrayType"
    /\ desc.Syscalls[1].Args[1][4] \in DOMAIN desc.Unnamed
    /\ desc.Syscalls[2].Args[2]
           = <<"a">> \o desc.Unnamed[desc.Syscalls[1].Args[1][4]]

\* ------------------------------------------------------------------------
\* C4
\* ------------------------------------------------------------------------

\* the Base chain of resource name reaches a primitive integer kind within
\* fuel hops
RECURSIVE ReachesPrimitive(_, _)
ReachesPrimitive(name, fuel) ==
    IF desc.Resources[name].Base \in IntTypeNames THEN TRUE
    ELSE IF desc.Resources[name].Base \notin DOMAIN desc.Resources \/ fuel = 0 THEN FALSE
    ELSE ReachesPrimitive(desc.Resources[name].Base, fuel - 1)

\* a chain without a cycle is shorter than the table
HasPrimitive(name) == ReachesPrimitive(name, Cardinality(DOMAIN desc.Resources))

\* C4: resolution of a resource whose Base chain does not reach a primitive
\* integer kind (a Base missing from the table, a Base that is the resource
\* itself, a longer cycle) ends in a fatal error; it does not go on forever.
C4_ResolutionEndsFatally ==
    (walk # NoWalk /\ ~HasPrimitive(walk.name)) ~> (pc = "failed")

\* ------------------------------------------------------------------------
\* C5
\* ------------------------------------------------------------------------

\* the chain of a resource, furthest ancestor first and the resource last
RECURSIVE KindChain(_, _)
KindChain(name, fuel) ==
    IF desc.Resources[name].Base \in IntTypeNames \/ fuel = 0 THEN <<name>>
    ELSE Append(KindChain(desc.Resources[name].Base, fuel - 1), name)

\* the primitive kind a chain ends in: the Base of its furthest ancestor
Underlying(chain) == desc.Resources[chain[1]].Base

\* a value survives resolution when the table has it or it is a literal
Survives(v, table) == v \in DOMAIN table \/ ~isIdentifier(v)

Keep(vals, table) == {i \in 1..Len(vals) : Survives(vals[i], table)}

\* the surviving positions of a token list, in their order
RECURSIVE Ascending(_)
Ascending(S) ==
    IF S = {} THEN <<>>
    ELSE <<CHOOSE i \in S : \A j \in S : i <= j>>
             \o Ascending(S \ {CHOOSE i \in S : \A j \in S : i <= j})

\* a token list resolved: the surviving tokens in input order, a constant
\* replaced by its number
Resolved(vals, table) ==
    [k \in 1..Cardinality(Keep(vals, table)) |->
        IF vals[Ascending(Keep(vals, table))[k]] \in DOMAIN table
            THEN SprintU(table[vals[Ascending(Keep(vals, table))[k]]])
        ELSE vals[Ascending(Keep(vals, table))[k]]]

\* the resolved values of the members of a chain, concatenated in chain order
RECURSIVE ChainValues(_, _)
ChainValues(chain, table) ==
    IF chain = <<>> THEN <<>>
    ELSE Resolved(desc.Resources[Head(chain)].Values, table)
             \o ChainValues(Tail(chain), table)

PrimitiveSize(kind) ==
    CASE kind = "int8" -> 1
      [] kind = "int16" -> 2
      [] kind = "int32" -> 4
      [] kind = "int64" -> 8
      [] kind = "intptr" -> ptrSize

\* the step of generateResources that emits the descriptor of walk.name
ResourceEmitted == pc = "resources" /\ walk # NoWalk /\ walk' = NoWalk /\ pc' = "resources"

\* C5: the descriptor emitted for a resource whose chain passes N ancestors
\* before a primitive kind has the N+1 names of the chain as Kind, furthest
\* ancestor first and the resource last; the primitive kind as underlying
\* integer type; and as Values the resolved values of the chain members
\* concatenated in that order, or the single value 0 when there are none.
\* Every resource of a table whose chains all end is emitted.
C5_ResourceChainResolved ==
    [][/\ ResourceEmitted =>
            /\ HasPrimitive(walk.name)
            /\ walk.name \in DOMAIN outResources'
            /\ outResources'[walk.name].Name = walk.name
            /\ outResources'[walk.name].Kind
                   = KindChain(walk.name, Cardinality(DOMAIN desc.Resources))
            /\ Len(outResources'[walk.name].Kind) <= Cardinality(DOMAIN desc.Resources)
            /\ outResources'[walk.name].Type.k = "IntType"
            /\ outResources'[walk.name].Type.TypeSize
                   = PrimitiveSize(Underlying(outResources'[walk.name].Kind))
            /\ outResources'[walk.name].Type.BigEndian = FALSE
            /\ outResources'[walk.name].Values
                   = IF ChainValues(outResources'[walk.name].Kind, consts[arch]) = <<>>
                         THEN <<"0">>
                     ELSE ChainValues(outResources'[walk.name].Kind, consts[arch])
       /\ (pc = "resources" /\ pc' = "structFields")
              => DOMAIN outResources = DOMAIN desc.Resources]_vars

\* a resource with two ancestors has been emitted with values of its own
\* behind values of an ancestor
C5_Witness ==
    /\ pc = "resources"
    /\ \E name \in DOMAIN outResources :
           /\ Len(outResources[name].Kind) = 3
           /\ outResources[name].Kind[3] = name
           /\ Len(outResources[name].Values) >= 3
           /\ desc.Resources[name].Values # <<>>
           /\ desc.Resources[outResources[name].Kind[1]].Values # <<>>

\* ------------------------------------------------------------------------
\* C6
\* ------------------------------------------------------------------------

\* C6: the Flag Value Resolver never fails, and what it leaves of a flag set
\* is the input with every literal token kept, every identifier the table
\* has replaced by its number and every other identifier removed, in input
\* order; no identifier-shaped text is left.
C6_FlagsResolved ==
    [][pc = "flags" =>
          /\ pc' = "resources"
          /\ DOMAIN archFlags' = DOMAIN desc.Flags
          /\ \A f \in DOMAIN desc.Flags :
                 /\ archFlags'[f] = Resolved(desc.Flags[f], consts[arch])
                 /\ \A i \in 1..Len(archFlags'[f]) : ~isIdentifier(archFlags'[f][i])]_vars

\* a flag set with a literal, a known and an unknown identifier has been
\* resolved to fewer values than it has tokens
C6_Witness ==
    /\ pc = "resources"
    /\ \E f \in DOMAIN desc.Flags :
           /\ Len(desc.Flags[f]) = 3
           /\ Len(archFlags[f]) = 2
           /\ \E i, j, k \in 1..3 :
                  /\ ~isIdentifier(desc.Flags[f][i])
                  /\ desc.Flags[f][j] \in DOMAIN consts[arch]
                  /\ isIdentifier(desc.Flags[f][k])
                  /\ desc.Flags[f][k] \notin DOMAIN consts[arch]

\* ------------------------------------------------------------------------
\* Properties of struct fields: the steps they are about
\* ------------------------------------------------------------------------

\* pass 2 of generateStructs is about to compile the fields of an instance
FieldsStep == pc = "structFields" /\ structTodo # {}

\* the step compiled the fields of one instance
FieldsEmitted == FieldsStep /\ pc' = "structFields" /\ structTodo' # structTodo

\* the instance whose fields the step compiled
StepKey == CHOOSE key \in structTodo : key \notin structTodo'

\* the field specifications of an instance
KeyFields(key) == desc.Structs[key[1]].Flds

\* every character of s is the zero byte
RECURSIVE AllZero(_)
AllZero(s) == IF s = "" THEN TRUE ELSE Head(s) = NUL /\ AllZero(Tail(s))

\* ------------------------------------------------------------------------
\* C7
\* ------------------------------------------------------------------------

\* a string construct with a value parameter, a quoted literal or the name
\* of a string-flag set, and a fixed length that is a constant or a number
SizedString(spec, table) ==
    /\ spec[2] = "string"
    /\ Len(SeenParams(spec)) = 2
    /\ \/ /\ HasPrefix(SeenParams(spec)[1], "\"")
          /\ Len(SeenParams(spec)[1]) >= 2
       \/ SeenParams(spec)[1] \in DOMAIN desc.StrFlags
    /\ stringSize(SeenParams(spec)[2], table).ok

\* the literal values the construct enumerates
Literals(spec) ==
    IF HasPrefix(SeenParams(spec)[1], "\"")
        THEN <<SubSeq(SeenParams(spec)[1], 2, Len(SeenParams(spec)[1]) - 1)>>
    ELSE desc.StrFlags[SeenParams(spec)[1]]

\* the fixed length L, a uint64
FixedLen(spec, table) == stringSize(SeenParams(spec)[2], table).val

\* L is shorter than one of the literals
ShorterThanLiteral(spec, table) ==
    \E i \in 1..Len(Literals(spec)) :
        LLt(FixedLen(spec, table), U64(Len(Literals(spec)[i])))

\* L is exactly the length of the longest literal
LongestLiteral(spec, table) ==
    /\ \E i \in 1..Len(Literals(spec)) :
           FixedLen(spec, table) = U64(Len(Literals(spec)[i]))
    /\ ~ShorterThanLiteral(spec, table)

\* L leaves room for every literal and its terminating zero byte
RoomForTerminator(spec, table) ==
    \A i \in 1..Len(Literals(spec)) :
        LLt(U64(Len(Literals(spec)[i])), FixedLen(spec, table))

\* value number i of the node is literal number i followed only by zero
\* bytes, L bytes in all
PaddedTo(node, spec, table, i) ==
    /\ U64(Len(node.Values[i])) = FixedLen(spec, table)
    /\ HasPrefix(node.Values[i], Literals(spec)[i])
    /\ AllZero(SubSeq(node.Values[i], Len(Literals(spec)[i]) + 1, Len(node.Values[i])))

PaddedNode(node, spec, table) ==
    /\ node.k = "BufferType"
    /\ node.Kind = "BufferString"
    /\ Len(node.Values) = Len(Literals(spec))
    /\ \A i \in 1..Len(node.Values) : PaddedTo(node, spec, table, i)

\* the struct of every instance still to compile has the one field, a sized
\* string for which P holds
OnlyField(P(_, _)) ==
    \A key \in structTodo :
        /\ Len(KeyFields(key)) = 1
        /\ SizedString(KeyFields(key)[1], consts[arch])
        /\ P(KeyFields(key)[1], consts[arch])

\* C7 as the specification has it: a fixed length L shorter than one of the
\* literals is fatal; with L exactly the length of the longest literal the
\* construct compiles and every value is the literal followed only by zero
\* bytes, L bytes long.
C7_ExactLengthCompiles ==
    [][FieldsStep =>
          /\ OnlyField(ShorterThanLiteral) => pc' = "failed"
          /\ OnlyField(LongestLiteral)
                 => /\ FieldsEmitted
                    /\ PaddedNode(outStructs'[StepKey].Fields[1], KeyFields(StepKey)[1],
                                  consts[arch])]_vars

\* C7 (amended): every value is the literal and its terminating zero byte,
\* padded with zero bytes to L. A fixed length L that does not exceed the
\* length of one of the literals is fatal ("exceeds buffer length"); with L
\* above the length of every literal the construct compiles and every value
\* is the literal followed only by zero bytes, at least one, L bytes long.
C7_LengthCountsTerminator ==
    [][FieldsStep =>
          /\ OnlyField(LAMBDA s, t : ~RoomForTerminator(s, t))
                 => pc' = "failed" /\ err' = "string value exceeds buffer length"
          /\ OnlyField(RoomForTerminator) => FieldsEmitted
          /\ FieldsEmitted
                 => \A j \in 1..Len(KeyFields(StepKey)) :
                        SizedString(KeyFields(StepKey)[j], consts[arch])
                            => /\ RoomForTerminator(KeyFields(StepKey)[j], consts[arch])
                               /\ PaddedNode(outStructs'[StepKey].Fields[j],
                                             KeyFields(StepKey)[j], consts[arch])]_vars

\* a string-flag set with literals of different lengths has compiled with a
\* fixed length one above its longest literal
C7_Witness ==
    /\ pc = "structFields"
    /\ \E key \in DOMAIN outStructs :
           /\ key \notin structTodo
           /\ Len(outStructs[key].Fields) = 1
           /\ outStructs[key].Fields[1].k = "BufferType"
           /\ outStructs[key].Fields[1].Kind = "BufferString"
           /\ outStructs[key].Fields[1].Values = <<"ab" \o NUL \o NUL \o NUL, "abcd" \o NUL>>

\* ------------------------------------------------------------------------
\* C8
\* ------------------------------------------------------------------------

BufferSpec(spec) ==
    \/ spec[2] = "buffer" /\ Len(SeenParams(spec)) = 1
    \/ spec[2] = "filename" /\ Len(SeenParams(spec)) = 0

\* the construct was requested optional: its parameters have the opt marker
RequestedOpt(spec) == OptIndex(ParamsOf(spec)) # 0

\* the direction of the buffer inside: the direction parameter of buffer,
\* "in" for filename
InnerDir(spec) == IF spec[2] = "buffer" THEN SeenParams(spec)[1] ELSE "in"

\* the node is a Pointer over a Buffer
PointerToBuffer(node) == node.k = "PtrType" /\ node.Type.k = "BufferType"

\* the headers as the specification has them: the Pointer "in" and not
\* optional, the Buffer with the requested direction and optionality
HeadersInward(node, spec, dir) ==
    /\ PointerToBuffer(node)
    /\ node.hdr.ArgDir = fmtDir("in")
    /\ node.hdr.IsOptional = FALSE
    /\ node.Type.hdr.ArgDir = fmtDir(dir)
    /\ node.Type.hdr.IsOptional = RequestedOpt(spec)

\* the headers as the code builds them: the Pointer with the requested
\* direction and optionality, the Buffer with the direction parameter
\* ("in" for filename) and not optional
HeadersOutward(node, spec, dir) ==
    /\ PointerToBuffer(node)
    /\ node.hdr.ArgDir = fmtDir(dir)
    /\ node.hdr.IsOptional = RequestedOpt(spec)
    /\ node.Type.hdr.ArgDir = fmtDir(InnerDir(spec))
    /\ node.Type.hdr.IsOptional = FALSE

\* H holds of every buffer and filename the step compiled, as a struct field
\* (in the direction of the instance) or as Ret or argument of a call
BuffersCompiled(H(_, _, _)) ==
    /\ FieldsEmitted
           => \A j \in 1..Len(KeyFields(StepKey)) :
                  BufferSpec(KeyFields(StepKey)[j])
                      => H(outStructs'[StepKey].Fields[j], KeyFields(StepKey)[j], StepKey[3])
    /\ CallEmitted
           => \A i \in 1..Len(CallSpecs(desc.Syscalls[callIdx])) :
                  BufferSpec(CallSpecs(desc.Syscalls[callIdx])[i])
                      => H(CallNodes(desc.Syscalls[callIdx], outCalls'[callIdx])[i],
                           CallSpecs(desc.Syscalls[callIdx])[i],
                           CallDir(desc.Syscalls[callIdx], i))

\* C8 as the specification has it: for every buffer and filename construct
\* the Pointer node's header has direction "in" and optional = false and
\* the inner Buffer node's header has the requested direction and the
\* requested optionality.
C8_PointerForcedIn == [][BuffersCompiled(HeadersInward)]_vars

\* C8 (amended): for every buffer and filename construct the Pointer node's
\* header has the requested direction and the requested optionality; the
\* inner Buffer node's header has the direction parameter of buffer ("in"
\* for filename) and optional = false.
C8_PointerKeepsRequest == [][BuffersCompiled(HeadersOutward)]_vars

\* an optional buffer[in] field has compiled in an "out" instance: the
\* Pointer is optional and "out", the Buffer "in" and not optional
C8_Witness ==
    /\ pc = "structFields"
    /\ \E key \in DOMAIN outStructs :
           /\ key[3] = "out"
           /\ key \notin structTodo
           /\ \E j \in 1..Len(outStructs[key].Fields) :
                  /\ KeyFields(key)[j] = <<"b", "buffer", "in", "opt">>
                  /\ outStructs[key].Fields[j].k = "PtrType"
                  /\ outStructs[key].Fields[j].hdr.ArgDir = fmtDir("out")
                  /\ outStructs[key].Fields[j].hdr.IsOptional
                  /\ outStructs[key].Fields[j].Type.hdr.ArgDir = fmtDir("in")
                  /\ ~outStructs[key].Fields[j].Type.hdr.IsOptional

\* ------------------------------------------------------------------------
\* C9
\* ------------------------------------------------------------------------

\* 2^n as an unsigned number of 6 limbs, n < 96
WidePow2(n) == [i \in 1..6 |-> IF i = (n \div 16) + 1 THEN Pow2(n % 16) ELSE 0]

\* v + 32 * p of two non-negative int64 values, without wrapping (6 limbs)
LastValueBound(v, p) == LAdd(Ext(v, 6), LMulSmall(Ext(p, 6), maxPids, 0), 0)

\* p >= 1 and every integer of [v, v + 32*p - 1] lies in [0, 2^(8*s) - 1]
ProcFits(s, v, p) ==
    /\ ~I64Neg(p)
    /\ p # U64Zero
    /\ ~I64Neg(v)
    /\ LLe(LastValueBound(v, p), WidePow2(8 * s))

\* the nodes emitted for struct fields and for Ret and arguments of calls
EmittedNodes ==
    UNION {{outStructs[key].Fields[j] : j \in 1..Len(outStructs[key].Fields)} :
              key \in DOMAIN outStructs}
    \cup UNION {{outCalls[i].Args[j] : j \in 1..Len(outCalls[i].Args)} \cup {outCalls[i].Ret} :
                   i \in 1..Len(outCalls)}

\* C9: a proc construct of byte size s, start value v and stride p that is
\* accepted has p >= 1 and hands each of the 32 instances only values of
\* [0, 2^(8*s) - 1]: every integer of [v, v + 32*p - 1] fits the 8*s-bit
\* width. A specification with a value that does not fit is rejected.
C9_ProcValuesFit ==
    \A node \in EmittedNodes :
        node.k = "ProcType" => ProcFits(node.TypeSize, node.ValuesStart, node.ValuesPerProc)

\* ------------------------------------------------------------------------
\* C10
\* ------------------------------------------------------------------------

\* C10: no step of the compiler changes the token sequences stored in the
\* Description (call Args and Ret, struct fields, Unnamed entries), so a
\* specification compiled again, for another instance of its struct or in a
\* later architecture's pass, has the parameters it had the first time.
C10_DescriptionUnchanged == [][desc' = desc]_vars

\* ------------------------------------------------------------------------
\* C11
\* ------------------------------------------------------------------------

\* main is about to build the constant table of the architecture
ConstsStep == pc = "readConsts"

\* the step produced the table
ConstsBuilt == ConstsStep /\ pc' = "flags" /\ Len(consts') = arch

\* the step ended in failf
ConstsFailed == ConstsStep /\ pc' = "failed"

\* a line that is neither empty nor a comment
IsDecl(line) == line # "" /\ Head(line) # "#"

DeclName(line) == TrimSpace(SubSeq(line, 1, IndexEq(line, 1) - 1))

DeclValue(line) == ParseUint0(TrimSpace(SubSeq(line, IndexEq(line, 1) + 1, Len(line))))

\* a line that is neither skipped nor a declaration "name = value"
Malformed(line) == IsDecl(line) /\ (IndexEq(line, 1) = 0 \/ ~DeclValue(line).ok)

\* what the scanner makes of one line: skipped, malformed, or a declaration
\* of a name with a value
LineOf(line) ==
    [decl |-> IsDecl(line) /\ ~Malformed(line),
     bad |-> Malformed(line),
     name |-> IF IsDecl(line) /\ ~Malformed(line) THEN DeclName(line) ELSE "",
     val |-> IF IsDecl(line) /\ ~Malformed(line) THEN DeclValue(line).val ELSE U64Zero]

\* the lines of the sources, in order
RECURSIVE LinesOf(_)
LinesOf(lines) ==
    IF lines = <<>> THEN <<>> ELSE <<LineOf(Head(lines))>> \o LinesOf(Tail(lines))

\* the declarations of the sources, by line number
Decls(ds) == {i \in 1..Len(ds) : ds[i].decl}

\* line j declares again the name of line i
Again(ds, i, j) == ds[i].decl /\ ds[j].decl /\ i < j /\ ds[i].name = ds[j].name

\* ... with a different value
Clash(ds, i, j) == Again(ds, i, j) /\ ds[i].val # ds[j].val

\* nothing before line j ends the scan
Reached(ds, j) ==
    /\ \A i \in 1..(j - 1) : ~ds[i].bad
    /\ \A b \in 1..(j - 1) : \A a \in 1..(b - 1) : ~Clash(ds, a, b)

\* the sources declare every name with one value only, on well-formed lines
Consistent(ds) ==
    /\ \A i \in 1..Len(ds) : ~ds[i].bad
    /\ \A j \in 1..Len(ds) : \A i \in 1..(j - 1) : ~Clash(ds, i, j)

\* the names of the fixed call-number entries
FixedNames == {"__NR_" \o n : n \in DOMAIN syzkalls}

FixedValue(name) == syzkalls[CHOOSE n \in DOMAIN syzkalls : "__NR_" \o n = name]

\* the first different value of a name is fatal, and the message has the name,
\* the value the table had and the new one
ClashIsFatal(ds) ==
    \A j \in 1..Len(ds) : \A i \in 1..(j - 1) :
        (Reached(ds, j) /\ Clash(ds, i, j))
            => /\ ConstsFailed
               /\ err' = differentValues(ds[j].name, ds[i].val, ds[j].val)

\* sources that declare names again with the same value only give a table
SameValueIsAccepted(ds) == Consistent(ds) => ConstsBuilt

\* the table has every declared name, but those left out, with its declared
\* value
KeepsDeclared(ds, table, but) ==
    \A i \in Decls(ds) :
        ds[i].name \notin but
            => /\ ds[i].name \in DOMAIN table
               /\ table[ds[i].name] = ds[i].val

AllNames(ds) == {ds[i].name : i \in Decls(ds)}

NoValueReplaced(ds) ==
    /\ ClashIsFatal(ds)
    /\ SameValueIsAccepted(ds)
    /\ ConstsBuilt => KeepsDeclared(ds, consts'[arch], {})

OnlyCallNumbersReplaced(ds) ==
    /\ ClashIsFatal(ds)
    /\ ConstsBuilt <=> Consistent(ds)
    /\ ConstsBuilt =>
           /\ KeepsDeclared(ds, consts'[arch], FixedNames)
           /\ \A n \in FixedNames : consts'[arch][n] = FixedValue(n)
           /\ DOMAIN consts'[arch] = AllNames(ds) \cup FixedNames

\* C11 as stated: while the table of one architecture is built, a name
\* declared again with the same value is no error, a name declared again with
\* a different value is a fatal error that cites both values, and a table
\* that is produced has every declared name with the value declared for it.
C11_NoValueReplaced ==
    [][ConstsStep => NoValueReplaced(LinesOf(constFiles[arch]))]_vars

\* C11, amended: as above for every name but those of the fixed call-number
\* entries; these end up with the fixed number whatever the sources declared
\* for them, without an error. A table is produced exactly when no line is
\* malformed and no name has two different values, and it has no other names
\* than the declared and the fixed ones.
C11_OnlyCallNumbersReplaced ==
    [][ConstsStep => OnlyCallNumbersReplaced(LinesOf(constFiles[arch]))]_vars

\* a table built from sources that declare a name twice with one value,
\* spelled differently, and a call number the fixed table has otherwise
RedeclaredTable(lines, ds, table) ==
    /\ \E i, j \in Decls(ds) :
           Again(ds, i, j) /\ lines[i] # lines[j] /\ table[ds[i].name] = ds[j].val
    /\ \E i \in Decls(ds) : ds[i].name \in FixedNames /\ ds[i].val # table[ds[i].name]

C11_Witness ==
    /\ pc = "flags"
    /\ RedeclaredTable(constFiles[arch], LinesOf(constFiles[arch]), consts[arch])

\* ------------------------------------------------------------------------
\* C12
\* ------------------------------------------------------------------------

\* the StructRef / UnionRef keys of an emitted node, those of the pointee of
\* a pointer and of the element of an array included
RECURSIVE RefsOf(_)
RefsOf(node) ==
    IF node.k = "StructRef" THEN {node.key}
    ELSE IF node.k \in {"PtrType", "ArrayType"} THEN RefsOf(node.Type)
    ELSE {}

\* the keys emitted so far, in struct fields and call descriptors
EmittedRefs == UNION {RefsOf(node) : node \in EmittedNodes}

\* generate starts without instances; pass 1 creates them in one go, when
\* no field is compiled yet, and pass 2 leaves them as they are
PassOneBeforePassTwo ==
    [][/\ structMap' # structMap =>
              \/ pc = "flags" /\ structMap' = {} /\ outStructs' = <<>>
              \/ /\ pc = "resources" /\ pc' = "structFields"
                 /\ \A key \in structMap' : outStructs'[key].Fields = <<>>
       /\ FieldsStep => structMap' = structMap /\ DOMAIN outStructs = structMap]_vars

\* C12: in a compilation without a fatal error, every StructRef / UnionRef
\* key (type name, field name, direction) emitted for a struct field, for
\* the pointee of a ptr, for an array element or through an unnamed type is
\* a key that pass 1 registered.
C12_RefsRegistered == pc # "failed" => EmittedRefs \subseteq structMap

====
